---- MODULE Spec2Model ----
(***************************************************************************)
(* A model of the Octra wallet client of tools/octratx.py: the cached      *)
(* status read (get_status), the single send (send_transaction), the       *)
(* batched send (send_multiple_transactions), the history and pending      *)
(* reads (get_history, get_pending_transactions) and the entrypoint        *)
(* process_transaction, run against a remote ledger that answers each      *)
(* request with any of the outcomes _request can hand back.                *)
(*                                                                         *)
(* asyncio runs one coroutine at a time and switches only at an await, so  *)
(* every action below is the code between two awaits.                      *)
(***************************************************************************)
EXTENDS Integers, Sequences, FiniteSets, TLC

\* ---------------------------------------------------------------- bounds
\* The clock starts at T0 (time.time() is far from 0, so last_update = 0 is
\* always stale and a timestamp of 0 is more than an hour old), advances by
\* TickStep and stops at MaxClock.
T0 == 4000
TickStep == 15
MaxClock == 4035
\* API calls made on the wallet in one behaviour, and get_status calls in a
\* behaviour of get_status alone.
MaxCalls == 2
MaxStatusCalls == 3
\* Recipients of one send_many call, and the largest batch_size tried.
MaxRecipients == 2
MaxBatch == 2
\* References in one answer of GET /address/{address}.
MaxRefs == 2

\* ------------------------------------------------------ program constants
\* Python's None for the optional nonce and balance (both are >= 0 otherwise).
None == -1
\* get_status: (now - self.last_update) < 30
StatusTTL == 30
\* Line 228: the age under which get_history answers from its cache; line 271:
\* the age over which a refresh drops an entry; line 275: the entries kept.
HistoryTTL == 60
HistoryKeep == 3600
HistoryCap == 50
\* self.MICROUNIT
MICROUNIT == 1000000
\* "ou": "1" if amount < 1000 else "3"
OuThreshold == 1000

\* -------------------------------------------------------------- addresses
\* An address string is kept by the properties the code reads of it: its
\* first three characters, the number of characters after them (not counting
\* a trailing newline), whether all of those are in the base58 alphabet, and
\* whether the string ends with one "\n".
AddrMe == [id |-> "me", prefix |-> "oct", n |-> 44, b58 |-> TRUE, nl |-> FALSE]
AddrBob == [id |-> "bob", prefix |-> "oct", n |-> 44, b58 |-> TRUE, nl |-> FALSE]
AddrShort == [id |-> "short", prefix |-> "oct", n |-> 43, b58 |-> TRUE, nl |-> FALSE]
AddrBadChar == [id |-> "badchar", prefix |-> "oct", n |-> 44, b58 |-> FALSE, nl |-> FALSE]
AddrBadPrefix == [id |-> "badprefix", prefix |-> "0x1", n |-> 44, b58 |-> TRUE, nl |-> FALSE]
AddrNewline == [id |-> "newline", prefix |-> "oct", n |-> 44, b58 |-> TRUE, nl |-> TRUE]
\* self.address before load_wallet
AddrNone == [id |-> "None", prefix |-> "", n |-> 0, b58 |-> FALSE, nl |-> FALSE]

\* re.compile(r"^oct[1-9A-HJ-NP-Za-km-z]{44}$").match(a): "$" also matches
\* just before a newline that ends the string.
ADDRESS_PATTERN_match(a) == a.prefix = "oct" /\ a.n = 44 /\ a.b58

\* verify_address_format(a) of tools/octrawallets.py
verify_address_format(a) ==
    /\ a.prefix = "oct"
    /\ 3 + a.n + (IF a.nl THEN 1 ELSE 0) >= 20
    /\ 3 + a.n + (IF a.nl THEN 1 ELSE 0) <= 50
    /\ a.b58
    /\ ~a.nl

\* ---------------------------------------------------------------- amounts
\* An amount is its value and the shape of str(amount): "num" for digits with
\* an optional fraction, "neg" for a leading minus sign, "exp" for exponent
\* notation (1e+16), "nan" for nan (whose value is not <= 0), "text" for a str
\* of digits given in place of a number.
Amt(v, s) == [v |-> v, str |-> s]

\* re.compile(r"^\d+(\.\d+)?$").match(str(amount))
AMOUNT_PATTERN_match(a) == a.str \in {"num", "text"}

\* not self.AMOUNT_PATTERN.match(str(amount)) or amount <= 0: what it rejects,
\* and the TypeError of comparing a str with 0.
AmountCheck(a) ==
    IF ~AMOUNT_PATTERN_match(a) THEN "Invalid amount"
    ELSE IF a.str = "text" THEN "TypeError"
    ELSE IF a.v <= 0 THEN "Invalid amount"
    ELSE "ok"


\* ------------------------------------------------------------------ state
\* The two coroutines that may use the wallet at the same time.
Calls == {"c1", "c2"}

VARIABLES
    \* OctraWallet fields (__init__)
    address, signing_key, session, balance_cache, nonce_cache, last_update,
    transaction_history, last_history_update,
    \* the remote ledger: the account's finalized nonce and balance, and the
    \* staging pool (accepted, not yet finalized transactions)
    ledgerNonce, ledgerBalance, staged,
    \* time.time()
    clock,
    \* one activation record per coroutine, and the calls started so far
    fr, ncalls

wallet == <<address, signing_key, session, balance_cache, nonce_cache,
            last_update, transaction_history, last_history_update>>
ledger == <<ledgerNonce, ledgerBalance, staged>>
vars == <<address, signing_key, session, balance_cache, nonce_cache, last_update,
          transaction_history, last_history_update, ledgerNonce, ledgerBalance, staged, clock, fr, ncalls>>

\* The cached fields a call can change, as one value (kept in fr[c].pre at the
\* start of a call, to state what a failed call left alone).
Caches == [balance_cache |-> balance_cache, nonce_cache |-> nonce_cache,
           last_update |-> last_update, transaction_history |-> transaction_history,
           last_history_update |-> last_history_update]

\* __init__, lines 74-78: the caches of a wallet just constructed.
FreshCaches == [balance_cache |-> None, nonce_cache |-> None, last_update |-> 0,
                transaction_history |-> <<>>, last_history_update |-> 0]

Max(a, b) == IF a >= b THEN a ELSE b
MaxOf(S) == CHOOSE x \in S : \A y \in S : y <= x

\* ------------------------------------------------------------- responses
\* What _request returns is (status, text, json_data); status 0 stands for a
\* timeout or a transport error.
\* GET /balance/{address}
NoBal == [status |-> -1, body |-> "pending", ntok |-> 0, balTok |-> "-",
          nonceTok |-> "-", nonce |-> None, balance |-> None]
BalJson == [status |-> 200, body |-> "json", ntok |-> 0, balTok |-> "-",
            nonceTok |-> "-", nonce |-> ledgerNonce, balance |-> ledgerBalance]
BalText(k, bt, nt) == [status |-> 200, body |-> "text", ntok |-> k, balTok |-> bt,
                       nonceTok |-> nt, nonce |-> ledgerNonce, balance |-> ledgerBalance]
BalStatus(s) == [status |-> s, body |-> "none", ntok |-> 0, balTok |-> "-",
                 nonceTok |-> "-", nonce |-> None, balance |-> None]
\* A plain-text body: its token count, and per token "num" (digits) or "bad";
\* "dots" is a balance token such as 1.2.3, which passes
\* replace('.', '').isdigit() and makes float() raise.
BalanceResponses ==
    {BalJson, BalStatus(404), BalStatus(0), BalStatus(500), BalText(1, "num", "-")}
    \cup {BalText(2, bt, nt) : bt \in {"num", "bad", "dots"}, nt \in {"num", "bad"}}

\* GET /staging: 200 with the staging pool, 200 without a body, a timeout.
NoStg == [status |-> -1, data |-> FALSE, txs |-> {}]
StagingResponses ==
    {[status |-> 200, data |-> TRUE, txs |-> staged],
     [status |-> 200, data |-> FALSE, txs |-> {}],
     [status |-> 0, data |-> FALSE, txs |-> {}]}

\* ------------------------------------------------------------- get_status
\* A refresh that takes the highest staged nonce of any sender.
StatusUpdate_AnySender(w, bal, stg, now0, addr) ==
    IF bal.status = 200 /\ bal.body = "json"
    THEN LET txs == IF stg.status = 200 /\ stg.data THEN stg.txs ELSE {}
         IN [w EXCEPT !.nonce_cache =
                          IF txs # {}
                          THEN Max(bal.nonce, MaxOf({tx.nonce : tx \in txs}))
                          ELSE bal.nonce,
                      !.balance_cache = bal.balance,
                      !.last_update = now0]
    ELSE w
\* Lines 185-214: the cache after the gathered responses, w being the cache
\* before them.
StatusUpdate(w, bal, stg, now0, addr) ==
    IF bal.status = 200 /\ bal.body = "json"
    THEN LET our_txs == IF stg.status = 200 /\ stg.data
                        THEN {tx \in stg.txs : tx.from = addr}
                        ELSE {}
         IN [w EXCEPT !.nonce_cache =
                          IF our_txs # {}
                          THEN Max(bal.nonce, MaxOf({tx.nonce : tx \in our_txs}))
                          ELSE bal.nonce,
                      !.balance_cache = bal.balance,
                      !.last_update = now0]
    ELSE IF bal.status = 404
    THEN [w EXCEPT !.nonce_cache = 0, !.balance_cache = 0, !.last_update = now0]
    ELSE IF bal.status = 200 /\ bal.body = "text"
    THEN IF bal.ntok >= 2 /\ bal.balTok # "dots"
         THEN [w EXCEPT !.balance_cache = IF bal.balTok = "num" THEN bal.balance ELSE 0,
                        !.nonce_cache = IF bal.nonceTok = "num" THEN bal.nonce ELSE 0,
                        !.last_update = now0]
         ELSE [w EXCEPT !.nonce_cache = None, !.balance_cache = None]
    ELSE w

\* Line 175: the cached tuple is returned without a request; w is the cache.
\* A cache test that ignores force_refresh.
CacheHit_IgnoringForce(w, force_refresh, now) ==
    w.balance_cache # None /\ (now - w.last_update) < StatusTTL
\* A cache test that takes a balance of 0 for no balance.
CacheHit_Truthy(w, force_refresh, now) ==
    /\ ~force_refresh /\ w.balance_cache # None /\ w.balance_cache # 0
    /\ (now - w.last_update) < StatusTTL
CacheHit(w, force_refresh, now) ==
    ~force_refresh /\ w.balance_cache # None /\ (now - w.last_update) < StatusTTL

\* ------------------------------------------------------------ activations
\* sha256 of the serialized transaction, kept as the fields it was computed
\* from; <<>> is the empty string.
NoHash == <<>>
NoTx == [from |-> AddrNone, to_ |-> AddrNone, amount |-> 0, nonce |-> None,
         ou |-> "-", timestamp |-> 0]
\* What a call handed back: a return value or a raised exception.
NoRet == [kind |-> "none", exc |-> "", err |-> "", nonce |-> None, balance |-> None,
          success |-> FALSE, hash |-> NoHash, pending |-> {}]
\* What process_transaction handed back: the keys of the dictionary, the value
\* of 'success', the value of 'data' (what the wallet returned) or of 'error'.
NoOut == [kind |-> "none", keys |-> {}, success |-> FALSE, data |-> NoRet, error |-> ""]
Frame0 ==
    [pc |-> "idle", op |-> "none",
     \* process_transaction: the call came through it, its action, its result
     entry |-> "none", action |-> "none", out |-> NoOut,
     \* arguments
     force_refresh |-> FALSE, to_address |-> AddrNone, amount |-> Amt(0, "num"),
     recipients |-> <<>>, batch_size |-> 0,
     \* get_status: now, and the two gathered results
     now |-> 0, balGot |-> FALSE, bal |-> NoBal, stgGot |-> FALSE, stg |-> NoStg,
     status |-> [nonce |-> None, balance |-> None],
     \* send_transaction and send_multiple_transactions
     nonce |-> None, tx |-> NoTx, batch_idx |-> 0, tasks |-> <<>>,
     successful_txs |-> <<>>, failed_txs |-> <<>>,
     \* get_history: the references of the answer, and the gathered results
     refs |-> <<>>, tx_results |-> <<>>,
     \* bookkeeping for the properties: the requests issued by this call, the
     \* nonces it signed and posted (in order), and the caches when it started
     nreq |-> 0, posted |-> <<>>, pre |-> FreshCaches,
     ret |-> NoRet,
     \* the call made before this one: what it was, when it started, its result,
     \* the status of the answer to its balance query (None: no answer)
     prev |-> [op |-> "none", force_refresh |-> FALSE, now |-> 0, ret |-> NoRet,
               balStatus |-> None],
     \* a call of a function of tools/octrawallets.py: its arguments and result
     args |-> <<>>, res |-> <<>>]

\* The activation record of a call of op starting now on coroutine c.
NewFrame(c, op) ==
    [Frame0 EXCEPT !.op = op, !.pre = Caches, !.now = clock,
                   !.prev = [op |-> fr[c].op, force_refresh |-> fr[c].force_refresh,
                             now |-> fr[c].now, ret |-> fr[c].ret,
                             balStatus |-> fr[c].bal.status]]

\* process_transaction without its except clause.
ProcessResult_NoExcept(r) ==
    IF r.kind = "raise"
    THEN [NoOut EXCEPT !.kind = "raise", !.error = r.err]
    ELSE [NoOut EXCEPT !.kind = "return", !.keys = {"success", "data"},
                       !.success = TRUE, !.data = r]
\* process_transaction, lines 576-611: what it makes of the wallet call it
\* awaited: a returned value goes under 'data' with success True, an
\* exception is caught and reported under 'error'.
ProcessResult(r) ==
    IF r.kind = "raise"
    THEN [NoOut EXCEPT !.kind = "return", !.keys = {"success", "error"},
                       !.success = FALSE, !.error = r.err]
    ELSE [NoOut EXCEPT !.kind = "return", !.keys = {"success", "data"},
                       !.success = TRUE, !.data = r]
\* Lines 582-586 and 608: a failure reported without calling the wallet.
ProcessError(e) ==
    [NoOut EXCEPT !.kind = "return", !.keys = {"success", "error"},
                  !.success = FALSE, !.error = e]

\* The call of frame f ends with r; when it was awaited by
\* process_transaction, that one goes on in the same step.
Return(f, r) ==
    LET g == [f EXCEPT !.pc = "done", !.ret = r]
    IN IF f.entry = "process_transaction" THEN [g EXCEPT !.out = ProcessResult(r)]
       ELSE g
\* raise OctraWalletError(e), and the exceptions Python raises by itself.
BuiltinErrors == {"TypeError", "AttributeError", "ValueError", "KeyError"}
Raise(f, e) ==
    Return(f, [NoRet EXCEPT !.kind = "raise", !.err = e,
                            !.exc = IF e \in BuiltinErrors THEN e ELSE "OctraWalletError"])
RetStatus(n, b) == [NoRet EXCEPT !.kind = "return", !.nonce = n, !.balance = b]

\* Coroutine c runs no call.
Free(c) == fr[c].pc \in {"idle", "done"}

\* A session made anew by every request.
OpenSession_PerRequest(timeout) == timeout
\* _request, lines 147-148: the session is made by the first request, with
\* that request's timeout. None: no session.
OpenSession(timeout) == IF session = None THEN timeout ELSE session

\* get_status(force_refresh), lines 174-183, entered by frame f on a wallet
\* whose caches are w.
EnterStatus(f, w, force_refresh) ==
    IF CacheHit(w, force_refresh, clock)
    THEN Return([f EXCEPT !.status = [nonce |-> w.nonce_cache,
                                      balance |-> w.balance_cache]],
                RetStatus(w.nonce_cache, w.balance_cache))
    ELSE [f EXCEPT !.pc = "gs_wait", !.nreq = @ + 2]

GetStatus(c, force_refresh) ==
    /\ Free(c)
    /\ fr' = [fr EXCEPT ![c] =
                EnterStatus([NewFrame(c, "get_status") EXCEPT
                                !.force_refresh = force_refresh],
                            Caches, force_refresh)]
    /\ session' = IF fr'[c].pc = "gs_wait" THEN OpenSession(10) ELSE session
    /\ UNCHANGED <<address, signing_key, last_history_update, balance_cache, nonce_cache, last_update,
                   transaction_history, ledger, clock>>

\* The ledger answers GET /balance/{address}.
RespBalance(c) ==
    /\ fr[c].pc = "gs_wait" /\ ~fr[c].balGot
    /\ \E r \in BalanceResponses :
          fr' = [fr EXCEPT ![c].balGot = TRUE, ![c].bal = r]
    /\ UNCHANGED <<wallet, ledger, clock, ncalls>>

\* The ledger answers GET /staging.
RespStaging(c) ==
    /\ fr[c].pc = "gs_wait" /\ ~fr[c].stgGot
    /\ \E r \in StagingResponses :
          fr' = [fr EXCEPT ![c].stgGot = TRUE, ![c].stg = r]
    /\ UNCHANGED <<wallet, ledger, clock, ncalls>>

\* ------------------------------------------------------ _create_transaction
\* json.dumps(tx, separators=(",", ":")).encode() of the six fields, in order.
TxBytes(tx) == <<tx.from.id, tx.to_.id, tx.amount, tx.nonce, tx.ou, tx.timestamp>>
\* hashlib.sha256(tx_bytes).hexdigest(), taken as collision-free.
Sha256(bytes) == bytes
\* Lines 299-306: the transaction before it is signed.
UnsignedTx(to_address, amount, nonce, ts) ==
    [from |-> address, to_ |-> to_address, amount |-> amount.v * MICROUNIT,
     nonce |-> nonce, ou |-> IF amount.v < OuThreshold THEN "1" ELSE "3",
     timestamp |-> ts]
\* The hash _create_transaction returns with the transaction.
TxHash(tx) == Sha256(TxBytes(tx))
\* What the ledger keeps of an accepted transaction in its staging pool.
StagedTx(tx) == [from |-> tx.from, nonce |-> tx.nonce, amount |-> tx.amount]

\* POST /send-tx: the answers of the ledger. "accepted": 200 with JSON
\* {"status": "accepted", "tx_hash": h}; "ok": 200 with the text "ok";
\* "rejected": 200 with another JSON object; "badjson": 200 with a JSON value
\* that is no object (a non-empty list); "http_error": another status;
\* "timeout": status 0.
SubmitKinds == {"accepted", "ok", "rejected", "badjson", "http_error", "timeout"}
Accepting(kind) == kind \in {"accepted", "ok"}

\* ------------------------------------------------------- send_transaction
\* Lines 330-335.
SendValidation(to_address, amount) ==
    IF ~ADDRESS_PATTERN_match(to_address) THEN "Invalid recipient address"
    ELSE IF AmountCheck(amount) # "ok" THEN AmountCheck(amount)
    ELSE "ok"

\* A nonce that repeats the current one.
NextNonce_Same(nonce) == nonce
\* nonce + 1 of line 347
NextNonce(nonce) == nonce + 1

\* A balance test that only refuses an empty balance.
Insufficient_EmptyOnly(balance, amount) == balance = 0
\* Line 343: not balance or balance < amount, for a balance that is a number.
Insufficient(balance, amount) == balance = 0 \/ balance < amount.v

\* Lines 340-350: after get_status(force_refresh=True) returned.
SendAfterStatus(f, nonce, balance) ==
    IF nonce = None THEN Raise(f, "Failed to get current nonce")
    ELSE IF balance = None THEN Raise(f, "TypeError")
    ELSE IF Insufficient(balance, f.amount) THEN Raise(f, "Insufficient balance")
    ELSE IF signing_key = "None" THEN Raise(f, "AttributeError")
    ELSE LET tx == UnsignedTx(f.to_address, f.amount, NextNonce(nonce), clock)
         IN [f EXCEPT !.pc = "post_wait", !.nonce = nonce, !.tx = tx,
                      !.nreq = @ + 1,
                      !.posted = Append(@, [nonce |-> tx.nonce, to_address |-> tx.to_,
                                            amount |-> f.amount])]

\* Lines 353-378: the result dictionary for an answer of the given kind;
\* "raise" when json_data.get fails on a JSON value that is no object.
SendResult(kind, tx) ==
    CASE kind = "accepted" -> [NoRet EXCEPT !.kind = "return", !.success = TRUE,
                                            !.hash = TxHash(tx)]
      [] kind = "ok" -> [NoRet EXCEPT !.kind = "return", !.success = TRUE,
                                      !.hash = TxHash(tx)]
      [] kind = "badjson" -> [NoRet EXCEPT !.kind = "raise", !.err = "AttributeError",
                                           !.exc = "AttributeError"]
      [] OTHER -> [NoRet EXCEPT !.kind = "return", !.success = FALSE, !.err = kind]

\* A local entry that is born confirmed.
LocalEntry_Confirmed(hash, amount, to_address) ==
    [time |-> clock, hash |-> hash, amount |-> amount.v, counterparty |-> to_address,
     type |-> "outgoing", confirmed |-> TRUE]
\* Lines 382-389 and 453-460: the unconfirmed local history entry.
LocalEntry(hash, amount, to_address) ==
    [time |-> clock, hash |-> hash, amount |-> amount.v, counterparty |-> to_address,
     type |-> "outgoing", confirmed |-> FALSE]

SendTransaction(c, to_address, amount) ==
    /\ Free(c)
    /\ LET f == [NewFrame(c, "send_transaction") EXCEPT !.to_address = to_address,
                                                       !.amount = amount,
                                                       !.force_refresh = TRUE]
           v == SendValidation(to_address, amount)
       IN fr' = [fr EXCEPT ![c] = IF v # "ok" THEN Raise(f, v) ELSE EnterStatus(f, Caches, TRUE)]
    /\ session' = IF fr'[c].pc = "gs_wait" THEN OpenSession(10) ELSE session
    /\ UNCHANGED <<address, signing_key, last_history_update, balance_cache, nonce_cache, last_update,
                   transaction_history, ledger, clock>>

\* The ledger answers the POST of send_transaction: lines 351-393.
RespSend(c) ==
    /\ fr[c].pc = "post_wait"
    /\ \E kind \in SubmitKinds :
          LET r == SendResult(kind, fr[c].tx)
          IN /\ fr' = [fr EXCEPT ![c] = Return(fr[c], r)]
             /\ staged' = IF Accepting(kind) THEN staged \cup {StagedTx(fr[c].tx)}
                          ELSE staged
             /\ IF r.kind = "return" /\ r.success
                THEN /\ transaction_history' =
                            Append(transaction_history,
                                   LocalEntry(r.hash, fr[c].amount, fr[c].to_address))
                     /\ last_update' = 0
                ELSE UNCHANGED <<transaction_history, last_update>>
    /\ UNCHANGED <<address, signing_key, last_history_update, session, balance_cache, nonce_cache,
                   ledgerNonce, ledgerBalance, clock, ncalls>>

\* ---------------------------------------------- send_multiple_transactions
\* A recipient is an (address, amount) pair.
Rcpt(a, m) == [address |-> a, amount |-> m]

\* Lines 406-416: the first recipient the validation loop rejects decides.
RECURSIVE ManyValidation(_)
ManyValidation(recipients) ==
    IF recipients = <<>> THEN "ok"
    ELSE IF ~ADDRESS_PATTERN_match(Head(recipients).address) THEN "Invalid address"
    ELSE IF AmountCheck(Head(recipients).amount) # "ok"
         THEN AmountCheck(Head(recipients).amount)
    ELSE ManyValidation(Tail(recipients))

\* A total that counts the first recipient only.
TotalAmount_FirstOnly(recipients) ==
    IF recipients = <<>> THEN 0 ELSE Head(recipients).amount.v
\* total_amount of lines 410-416
RECURSIVE TotalAmount(_)
TotalAmount(recipients) ==
    IF recipients = <<>> THEN 0
    ELSE Head(recipients).amount.v + TotalAmount(Tail(recipients))

Min(a, b) == IF a <= b THEN a ELSE b

\* Line 426: [recipients[i:i+batch_size] for i in range(0, len(recipients),
\* batch_size)], for batch_size >= 1 (0 makes range raise, a negative
\* batch_size gives no batch).
Batches_OneWave(recipients, batch_size) ==
    IF batch_size < 1 THEN <<>> ELSE <<recipients>>
Batches(recipients, batch_size) ==
    IF batch_size < 1 THEN <<>>
    ELSE [k \in 1..((Len(recipients) + batch_size - 1) \div batch_size) |->
             SubSeq(recipients, (k - 1) * batch_size + 1,
                    Min(k * batch_size, Len(recipients)))]

\* A nonce that forgets the batches before.
TxNonce_NoBatchOffset(nonce, batch_idx, batch_size, i) == nonce + 1 + i
\* Line 433: the nonce of the i-th (0-based) transaction of batch batch_idx.
TxNonce(nonce, batch_idx, batch_size, i) ==
    nonce + 1 + (batch_idx * batch_size) + i

\* Lines 431-437: the batch batch_idx (0-based) is signed, every transaction
\* with its pre-assigned nonce, and posted as one wave.
LaunchWave(f, batch_idx) ==
    IF signing_key = "None" THEN Raise(f, "AttributeError")
    ELSE
    LET batch == Batches(f.recipients, f.batch_size)[batch_idx + 1]
        tasks == [i \in 1..Len(batch) |->
                    [to_address |-> batch[i].address, amount |-> batch[i].amount,
                     tx |-> UnsignedTx(batch[i].address, batch[i].amount,
                                       TxNonce(f.nonce, batch_idx, f.batch_size, i - 1),
                                       clock),
                     outcome |-> "pending", hash |-> NoHash, error |-> ""]]
    IN [f EXCEPT !.pc = "wave_wait", !.batch_idx = batch_idx, !.tasks = tasks,
                 !.nreq = @ + Len(batch),
                 !.posted = @ \o [i \in 1..Len(batch) |->
                                    [nonce |-> tasks[i].tx.nonce,
                                     to_address |-> tasks[i].to_address,
                                     amount |-> tasks[i].amount]]]

\* The dictionary returned at lines 472-478; the two lists stay in the frame.
ManyReturn(f) == Return(f, [NoRet EXCEPT !.kind = "return"])

\* Lines 419-430: after get_status(force_refresh=True) returned.
ManyAfterStatus(f, nonce, balance) ==
    IF nonce = None THEN Raise(f, "Failed to get current nonce")
    ELSE IF balance = None THEN Raise(f, "TypeError")
    ELSE IF balance = 0 \/ balance < TotalAmount(f.recipients)
    THEN Raise(f, "Insufficient balance")
    ELSE IF f.batch_size = 0 THEN Raise(f, "ValueError")
    ELSE IF f.batch_size < 0 THEN ManyReturn([f EXCEPT !.nonce = nonce])
    ELSE LaunchWave([f EXCEPT !.nonce = nonce], 0)

\* _send_single_tx, lines 482-504: what the task of one transaction ends with
\* for an answer of the given kind; "exception" when json_data.get fails on a
\* JSON value that is no object (gather hands the exception back).
SingleTxResult(t, kind) ==
    CASE kind = "accepted" -> [t EXCEPT !.outcome = "success", !.hash = TxHash(t.tx)]
      [] kind = "ok" -> [t EXCEPT !.outcome = "success", !.hash = NoHash]
      [] kind = "badjson" -> [t EXCEPT !.outcome = "exception", !.error = "AttributeError"]
      [] OTHER -> [t EXCEPT !.outcome = "failure", !.error = kind]

SendMany(c, recipients, batch_size) ==
    /\ Free(c)
    /\ LET f == [NewFrame(c, "send_multiple_transactions") EXCEPT
                    !.recipients = recipients, !.batch_size = batch_size,
                    !.force_refresh = TRUE]
           v == ManyValidation(recipients)
       IN fr' = [fr EXCEPT ![c] =
                    IF recipients = <<>> THEN Raise(f, "No recipients provided")
                    ELSE IF v # "ok" THEN Raise(f, v)
                    ELSE EnterStatus(f, Caches, TRUE)]
    /\ session' = IF fr'[c].pc = "gs_wait" THEN OpenSession(10) ELSE session
    /\ UNCHANGED <<address, signing_key, last_history_update, balance_cache, nonce_cache, last_update,
                   transaction_history, ledger, clock>>

\* The ledger answers the POST of the i-th task of the wave in flight.
RespTask(c) ==
    /\ fr[c].pc = "wave_wait"
    /\ \E i \in 1..Len(fr[c].tasks), kind \in SubmitKinds :
          /\ fr[c].tasks[i].outcome = "pending"
          /\ fr' = [fr EXCEPT ![c].tasks[i] = SingleTxResult(@, kind)]
          /\ staged' = IF Accepting(kind) THEN staged \cup {StagedTx(fr[c].tasks[i].tx)}
                       ELSE staged
    /\ UNCHANGED <<wallet, ledgerNonce, ledgerBalance, clock, ncalls>>

Succeeded(t) == t.outcome = "success"
\* A failure test that misses the submissions that raised.
NotSucceeded_ReportedOnly(t) == t.outcome = "failure"
NotSucceeded(t) == t.outcome # "success"
\* Lines 439-466: the records of one wave, in the order of the batch.
WaveSuccessful(tasks) ==
    LET ok == SelectSeq(tasks, Succeeded)
    IN [i \in 1..Len(ok) |-> [address |-> ok[i].to_address, amount |-> ok[i].amount,
                              hash |-> ok[i].hash, error |-> ""]]
WaveFailed(tasks) ==
    LET ko == SelectSeq(tasks, NotSucceeded)
    IN [i \in 1..Len(ko) |-> [address |-> ko[i].to_address, amount |-> ko[i].amount,
                              hash |-> NoHash, error |-> ko[i].error]]
WaveHistory(tasks) ==
    LET ok == SelectSeq(tasks, Succeeded)
    IN [i \in 1..Len(ok) |-> LocalEntry(ok[i].hash, ok[i].amount, ok[i].to_address)]

\* asyncio.gather of the wave returned: lines 439-478. The results are
\* recorded, then the next batch is launched or the call returns.
WaveDone(c) ==
    /\ fr[c].pc = "wave_wait"
    /\ \A i \in 1..Len(fr[c].tasks) : fr[c].tasks[i].outcome # "pending"
    /\ LET f == fr[c]
           g == [f EXCEPT !.successful_txs = @ \o WaveSuccessful(f.tasks),
                          !.failed_txs = @ \o WaveFailed(f.tasks),
                          !.tasks = <<>>]
           last == f.batch_idx + 1 >= Len(Batches(f.recipients, f.batch_size))
       IN /\ transaction_history' = transaction_history \o WaveHistory(f.tasks)
          /\ fr' = [fr EXCEPT ![c] = IF last THEN ManyReturn(g)
                                     ELSE LaunchWave(g, f.batch_idx + 1)]
          /\ last_update' = IF last /\ g.successful_txs # <<>> THEN 0 ELSE last_update
    /\ UNCHANGED <<address, signing_key, last_history_update, session, balance_cache, nonce_cache,
                   ledger, clock, ncalls>>

\* What the caller of get_status does with the tuple it returns.
AfterStatus(f, nonce, balance) ==
    CASE f.op = "send_transaction" -> SendAfterStatus(f, nonce, balance)
      [] f.op = "send_multiple_transactions" -> ManyAfterStatus(f, nonce, balance)
      [] OTHER -> Return(f, RetStatus(nonce, balance))

\* asyncio.gather returned: lines 185-214, then the caller goes on.
StatusDone(c) ==
    /\ fr[c].pc = "gs_wait" /\ fr[c].balGot /\ fr[c].stgGot
    /\ LET w == StatusUpdate(Caches, fr[c].bal, fr[c].stg, fr[c].now, address)
       IN /\ balance_cache' = w.balance_cache
          /\ nonce_cache' = w.nonce_cache
          /\ last_update' = w.last_update
          /\ fr' = [fr EXCEPT ![c] =
                       AfterStatus([fr[c] EXCEPT !.status = [nonce |-> w.nonce_cache,
                                                             balance |-> w.balance_cache]],
                                   w.nonce_cache, w.balance_cache)]
    /\ UNCHANGED <<address, signing_key, last_history_update, session, transaction_history, ledger,
                   clock, ncalls>>

\* ------------------------------------------------------------- get_history
\* The transactions the ledger has finalized: 'parsed_tx' of GET /tx/{hash}.
\* The second is more than an hour old.
LedgerTxs ==
    {[hash |-> <<"h1">>, from |-> AddrBob, to_ |-> AddrMe, amount |-> 2,
      timestamp |-> T0 - 10, nonce |-> 7],
     [hash |-> <<"h2">>, from |-> AddrMe, to_ |-> AddrBob, amount |-> 1,
      timestamp |-> 0, nonce |-> 8]}
\* The transactions the ledger took from this wallet and the wallet still
\* holds as unconfirmed local entries: the ledger can list them as well.
SentTxs ==
    {[hash |-> e.hash, from |-> address, to_ |-> e.counterparty, amount |-> e.amount,
      timestamp |-> e.time, nonce |-> e.hash[4]] :
        e \in {transaction_history[i] : i \in {j \in 1..Len(transaction_history) :
                                                  ~transaction_history[j].confirmed}}}
ParsedTx(hash) == CHOOSE tx \in LedgerTxs \cup SentTxs : tx.hash = hash
\* An item of 'recent_transactions'; NoHash: the item has no 'hash' key.
Refs == {[hash |-> tx.hash, epoch |-> 1] : tx \in LedgerTxs \cup SentTxs}
        \cup {[hash |-> NoHash, epoch |-> 1]}
RefLists == UNION {[1..n -> Refs] : n \in 0..MaxRefs}
\* GET /address/{address}?limit=..: "refs": 200 and a JSON object with
\* recent_transactions; "notx": 200 and a text with 'no transactions';
\* "other": 200 and another body; "empty": 200 and no body; "404"; "timeout".
AddressResponses ==
    {[kind |-> k, refs |-> <<>>] : k \in {"notx", "other", "empty", "404", "timeout"}}
    \cup {[kind |-> "refs", refs |-> r] : r \in RefLists}
\* GET /tx/{hash}: "parsed": 200 with parsed_tx; "miss": anything else that
\* _request hands back; "badamount": 200 with a parsed_tx whose amount is no
\* number.
TxKinds == {"parsed", "miss", "badamount"}

\* Lines 253-262: the history entry of a fetched transaction.
RemoteEntry(ref, addr) ==
    LET parsed == ParsedTx(ref.hash)
        is_incoming == parsed.to_ = addr
    IN [time |-> parsed.timestamp, hash |-> ref.hash, amount |-> parsed.amount,
        counterparty |-> IF is_incoming THEN parsed.from ELSE parsed.to_,
        type |-> IF is_incoming THEN "incoming" ELSE "outgoing",
        confirmed |-> TRUE, nonce |-> parsed.nonce, epoch |-> ref.epoch]

\* sorted(.., key=lambda x: x['time'], reverse=True): stable, newest first.
\* The place of s[i] is one more than the number of entries that are newer, or
\* as old and before it in s.
SortedByTime(s) ==
    LET n == Len(s)
        Place(i) == 1 + Cardinality({j \in 1..n :
                                        \/ s[j].time > s[i].time
                                        \/ s[j].time = s[i].time /\ j < i})
    IN CHOOSE r \in {[k \in 1..n |-> s[CHOOSE i \in 1..n : place[i] = k]] :
                         place \in {[i \in 1..n |-> Place(i)]}} : TRUE
Take(s, n) == SubSeq(s, 1, Min(n, Len(s)))

\* Entries made of every parsed reference, cached or not.
RECURSIVE NewTransactions_NoDedupe(_, _, _, _)
NewTransactions_NoDedupe(refs, results, existing_hashes, addr) ==
    IF refs = <<>> THEN <<>>
    ELSE LET rest == NewTransactions_NoDedupe(Tail(refs), Tail(results),
                                              existing_hashes, addr)
         IN IF Head(results) = "parsed"
            THEN <<RemoteEntry(Head(refs), addr)>> \o rest
            ELSE rest
\* Lines 241-264: the entries made of the references and their results, in
\* order; existing_hashes are the hashes of the history before.
RECURSIVE NewTransactions(_, _, _, _)
NewTransactions(refs, results, existing_hashes, addr) ==
    IF refs = <<>> THEN <<>>
    ELSE LET rest == NewTransactions(Tail(refs), Tail(results), existing_hashes, addr)
         IN IF Head(results) = "parsed" /\ Head(refs).hash \notin existing_hashes
            THEN <<RemoteEntry(Head(refs), addr)>> \o rest
            ELSE rest
\* Line 252: float() or int() of an amount that is no number raises.
AmountRaises(refs, results, existing_hashes) ==
    \E i \in 1..Len(refs) :
        results[i] = "badamount" /\ refs[i].hash \notin existing_hashes
\* A merge that keeps every entry, however many.
MergedHistory_Untruncated(new_transactions, history, now) ==
    LET Recent(e) == e.time > now - HistoryKeep
    IN SortedByTime(new_transactions \o SelectSeq(history, Recent))
\* Lines 266-273: the history after a refresh.
MergedHistory(new_transactions, history, now) ==
    LET Recent(e) == e.time > now - HistoryKeep
    IN Take(SortedByTime(new_transactions \o SelectSeq(history, Recent)), HistoryCap)

RetHistory == [NoRet EXCEPT !.kind = "return"]

\* Lines 227-231: get_history(limit, force_refresh) entered by frame f on a
\* wallet whose caches are w; the limit only goes into the request.
EnterHistory(f, w, force_refresh) ==
    IF ~force_refresh /\ (clock - w.last_history_update) < HistoryTTL
       /\ w.transaction_history # <<>>
    THEN Return(f, RetHistory)
    ELSE [f EXCEPT !.pc = "gh_wait", !.nreq = @ + 1]

\* Lines 265-277: the fetched transactions are merged into the history.
FinishHistory(c, f) ==
    LET existing_hashes == {transaction_history[i].hash :
                               i \in 1..Len(transaction_history)}
    IN IF AmountRaises(f.refs, f.tx_results, existing_hashes)
       THEN /\ fr' = [fr EXCEPT ![c] = Raise(f, "ValueError")]
            /\ UNCHANGED <<transaction_history, last_history_update>>
       ELSE /\ transaction_history' =
                   MergedHistory(NewTransactions(f.refs, f.tx_results,
                                                 existing_hashes, address),
                                 transaction_history, clock)
            /\ last_history_update' = f.now
            /\ fr' = [fr EXCEPT ![c] = Return(f, RetHistory)]

\* The ledger answers GET /address/{address}: lines 231-240 and 279-284.
RespAddress(c) ==
    /\ fr[c].pc = "gh_wait"
    /\ \E r \in AddressResponses :
          LET f == [fr[c] EXCEPT !.refs = r.refs,
                                 !.tx_results = [i \in 1..Len(r.refs) |-> "pending"]]
          IN CASE r.kind \in {"404", "timeout", "empty", "other"} ->
                    /\ fr' = [fr EXCEPT ![c] = Return(fr[c], RetHistory)]
                    /\ UNCHANGED <<transaction_history, last_history_update>>
               [] r.kind = "notx" ->
                    /\ transaction_history' = <<>>
                    /\ last_history_update' = fr[c].now
                    /\ fr' = [fr EXCEPT ![c] = Return(fr[c], RetHistory)]
               [] r.kind = "refs" /\ \E i \in 1..Len(r.refs) : r.refs[i].hash = NoHash ->
                    /\ fr' = [fr EXCEPT ![c] = Raise(fr[c], "KeyError")]
                    /\ UNCHANGED <<transaction_history, last_history_update>>
               [] r.kind = "refs" /\ r.refs = <<>> -> FinishHistory(c, f)
               [] OTHER ->
                    /\ fr' = [fr EXCEPT ![c] = [f EXCEPT !.pc = "gh_tx_wait",
                                                         !.nreq = @ + Len(r.refs)]]
                    /\ UNCHANGED <<transaction_history, last_history_update>>
    /\ UNCHANGED <<address, signing_key, session, balance_cache, nonce_cache,
                   last_update, ledger, clock, ncalls>>

\* The ledger answers one GET /tx/{hash} of the gather of lines 236-239.
RespTx(c) ==
    /\ fr[c].pc = "gh_tx_wait"
    /\ \E i \in 1..Len(fr[c].tx_results), kind \in TxKinds :
          /\ fr[c].tx_results[i] = "pending"
          /\ fr' = [fr EXCEPT ![c].tx_results[i] = kind]
    /\ UNCHANGED <<wallet, ledger, clock, ncalls>>

\* asyncio.gather of the fetches returned: lines 241-277 and 285.
HistoryDone(c) ==
    /\ fr[c].pc = "gh_tx_wait"
    /\ \A i \in 1..Len(fr[c].tx_results) : fr[c].tx_results[i] # "pending"
    /\ FinishHistory(c, fr[c])
    /\ UNCHANGED <<address, signing_key, session, balance_cache, nonce_cache,
                   last_update, ledger, clock, ncalls>>

\* ------------------------------------------------ get_pending_transactions
\* A pending list that keeps the transactions of every sender.
OurTxs_Unfiltered(r, addr) == IF r.status # 200 \/ ~r.data THEN {} ELSE r.txs
\* Lines 514-518: the list get_pending_transactions returns for the answer r
\* to GET /staging.
OurTxs(r, addr) ==
    IF r.status # 200 \/ ~r.data THEN {} ELSE {tx \in r.txs : tx.from = addr}

\* The ledger answers GET /staging of get_pending_transactions: lines 513-518.
RespPending(c) ==
    /\ fr[c].pc = "gp_wait"
    /\ \E r \in StagingResponses :
          fr' = [fr EXCEPT ![c] =
                    Return([fr[c] EXCEPT !.stgGot = TRUE, !.stg = r],
                           [NoRet EXCEPT !.kind = "return",
                                         !.pending = OurTxs(r, address)])]
    /\ UNCHANGED <<wallet, ledger, clock, ncalls>>

\* get_pending_transactions(), line 513: the one request of the call.
GetPendingTransactions(c) ==
    /\ Free(c)
    /\ fr' = [fr EXCEPT ![c] =
                [NewFrame(c, "get_pending_transactions") EXCEPT !.pc = "gp_wait",
                                                                !.nreq = @ + 1]]
    /\ session' = OpenSession(5)
    /\ UNCHANGED <<address, signing_key, balance_cache, nonce_cache, last_update,
                   transaction_history, last_history_update, ledger, clock>>

\* ----------------------------------------------------- process_transaction
\* input_data: the action ("missing": no 'action' key; "bogus": one that is
\* none of the five), and for a send the keys present and their values.
Input(action, has_to, has_amount, to_address, amount) ==
    [action |-> action, has_to |-> has_to, has_amount |-> has_amount,
     to_address |-> to_address, amount |-> amount]
\* The wallet method an action calls.
ActionOp(action) ==
    CASE action = "send" -> "send_transaction"
      [] action = "status" -> "get_status"
      [] action = "history" -> "get_history"
      [] action = "pending" -> "get_pending_transactions"
      [] action = "wallet_info" -> "get_wallet_info"
      [] OTHER -> "none"
\* Lines 571-608, up to the first await: the frame of a call with input d.
\* The wallet is the one just constructed (lines 572-574), never loaded.
Dispatch(f, d) ==
    CASE d.action = "missing" -> Raise(f, "KeyError")
      [] d.action = "send" ->
            IF ~(d.has_to /\ d.has_amount)
            THEN [f EXCEPT !.pc = "done", !.op = "none",
                           !.out = ProcessError("Missing required parameters: to_address and amount")]
            ELSE LET g == [f EXCEPT !.to_address = d.to_address, !.amount = d.amount,
                                    !.force_refresh = TRUE]
                     v == SendValidation(d.to_address, d.amount)
                 IN IF v # "ok" THEN Raise(g, v) ELSE EnterStatus(g, FreshCaches, TRUE)
      [] d.action = "status" -> EnterStatus(f, FreshCaches, FALSE)
      [] d.action = "history" -> EnterHistory(f, FreshCaches, FALSE)
      [] d.action = "pending" -> [f EXCEPT !.pc = "gp_wait", !.nreq = @ + 1]
      [] d.action = "wallet_info" -> Return(f, [NoRet EXCEPT !.kind = "return"])
      [] OTHER -> [f EXCEPT !.pc = "done", !.out = ProcessError("Unknown action")]

\* process_transaction(input_data), lines 571-611.
ProcessTransaction(c, d) ==
    /\ Free(c)
    /\ fr' = [fr EXCEPT ![c] =
                Dispatch([NewFrame(c, ActionOp(d.action)) EXCEPT
                             !.entry = "process_transaction", !.action = d.action,
                             !.pre = FreshCaches], d)]
    \* wallet = OctraWallet(..): __init__, lines 67-78
    /\ address' = AddrNone
    /\ signing_key' = "None"
    /\ balance_cache' = FreshCaches.balance_cache
    /\ nonce_cache' = FreshCaches.nonce_cache
    /\ last_update' = FreshCaches.last_update
    /\ transaction_history' = FreshCaches.transaction_history
    /\ last_history_update' = FreshCaches.last_history_update
    \* the first request of the call makes the session, with its timeout
    /\ session' = CASE fr'[c].pc \in {"gs_wait", "gh_wait"} -> 10
                    [] fr'[c].pc = "gp_wait" -> 5
                    [] OTHER -> None
    /\ UNCHANGED <<ledger, clock>>

\* ------------------------------------------------------------ environment
Tick ==
    /\ clock + TickStep <= MaxClock
    /\ clock' = clock + TickStep
    /\ UNCHANGED <<wallet, ledger, fr, ncalls>>

\* The ledger finalizes one staged transaction: it leaves the staging pool and
\* the sender's finalized nonce and balance follow.
Finalize ==
    /\ \E tx \in staged :
          /\ staged' = staged \ {tx}
          /\ ledgerNonce' = IF tx.from = address THEN Max(ledgerNonce, tx.nonce)
                            ELSE ledgerNonce
          /\ ledgerBalance' = IF tx.from = address
                              THEN Max(0, ledgerBalance - tx.amount \div MICROUNIT)
                              ELSE ledgerBalance
    /\ UNCHANGED <<wallet, clock, fr, ncalls>>

\* ---------------------------------------------------------- specifications
\* A loaded wallet (load_wallet after __init__) and an account on the ledger.
InitNonces == {0, 10}
InitBalances == {0, 3}
InitLoaded ==
    /\ address = AddrMe
    /\ signing_key = "loaded"
    /\ session = None
    /\ balance_cache = None
    /\ nonce_cache = None
    /\ last_update = 0
    /\ transaction_history = <<>>
    /\ last_history_update = 0
    /\ ledgerNonce \in InitNonces
    /\ ledgerBalance \in InitBalances
    /\ staged = {}
    /\ clock = T0
    /\ fr = [c \in Calls |-> Frame0]
    /\ ncalls = 0

StatusSteps(c) == RespBalance(c) \/ RespStaging(c) \/ StatusDone(c)

\* The budget of calls of a behaviour: one more call, or the last one.
OneCall == ncalls < MaxCalls /\ ncalls' = ncalls + 1
LastCall == ncalls < MaxCalls /\ ncalls' = MaxCalls

\* Recipients and amounts tried.
ToAddresses == {AddrBob, AddrShort, AddrBadChar, AddrBadPrefix, AddrNewline}
Amounts == {Amt(1, "num"), Amt(4, "num"), Amt(0, "num"), Amt(-1, "neg"), Amt(5, "exp"),
            Amt(1, "nan")}

\* send_transaction and get_status, one call at a time.
NextSend ==
    \/ /\ OneCall
       /\ \E to_address \in ToAddresses, amount \in Amounts :
             SendTransaction("c1", to_address, amount)
    \/ OneCall /\ \E force_refresh \in BOOLEAN : GetStatus("c1", force_refresh)
    \/ StatusSteps("c1")
    \/ RespSend("c1")
    \/ Finalize
SpecSend == InitLoaded /\ [][NextSend]_vars

\* The recipient lists tried: every list of at most MaxRecipients recipients.
RecipientChoices == {Rcpt(AddrBob, Amt(1, "num")), Rcpt(AddrNewline, Amt(2, "num")),
                     Rcpt(AddrBadChar, Amt(1, "num")), Rcpt(AddrBob, Amt(0, "num"))}
RecipientLists == UNION {[1..n -> RecipientChoices] : n \in 0..MaxRecipients}
BatchSizes == -1..MaxBatch

\* send_multiple_transactions after get_status calls, one call at a time.
NextMany ==
    \/ /\ LastCall
       /\ Free("c1")
       /\ \E recipients \in RecipientLists, batch_size \in BatchSizes :
             SendMany("c1", recipients, batch_size)
    \/ OneCall /\ \E force_refresh \in BOOLEAN : GetStatus("c1", force_refresh)
    \/ StatusSteps("c1")
    \/ RespTask("c1")
    \/ WaveDone("c1")
SpecMany == InitLoaded /\ [][NextMany]_vars

\* get_status alone, one call at a time.
NextStatus ==
    \/ /\ ncalls < MaxStatusCalls /\ ncalls' = ncalls + 1
       /\ \E force_refresh \in BOOLEAN : GetStatus("c1", force_refresh)
    \/ StatusSteps("c1")
    \/ Tick
SpecStatus == InitLoaded /\ [][NextStatus]_vars

\* A staging pool that may hold a transaction of another sender.
ForeignTx == [from |-> AddrBob, nonce |-> 1, amount |-> MICROUNIT]
InitPending ==
    /\ address = AddrMe
    /\ signing_key = "loaded"
    /\ session = None
    /\ balance_cache = None
    /\ nonce_cache = None
    /\ last_update = 0
    /\ transaction_history = <<>>
    /\ last_history_update = 0
    /\ ledgerNonce \in InitNonces
    /\ ledgerBalance \in InitBalances
    /\ staged \in {{}, {ForeignTx}}
    /\ clock = T0
    /\ fr = [c \in Calls |-> Frame0]
    /\ ncalls = 0
\* get_pending_transactions between sends and status reads, one call at a
\* time.
NextPending ==
    \/ OneCall /\ GetPendingTransactions("c1")
    \/ OneCall /\ SendTransaction("c1", AddrBob, Amt(1, "num"))
    \/ OneCall /\ GetStatus("c1", FALSE)
    \/ RespPending("c1")
    \/ StatusSteps("c1")
    \/ RespSend("c1")
    \/ Finalize
SpecPending == InitPending /\ [][NextPending]_vars

\* process_transaction, called again and again, each call on a wallet of its
\* own; the account of AddrMe is what the ledger answers about.
InitEntry ==
    /\ address = AddrNone
    /\ signing_key = "None"
    /\ session = None
    /\ balance_cache = None
    /\ nonce_cache = None
    /\ last_update = 0
    /\ transaction_history = <<>>
    /\ last_history_update = 0
    /\ ledgerNonce \in InitNonces
    /\ ledgerBalance \in InitBalances
    /\ staged = {}
    /\ clock = T0
    /\ fr = [c \in Calls |-> Frame0]
    /\ ncalls = 0
EntryActions ==
    {"send", "status", "history", "pending", "wallet_info", "bogus", "missing"}
EntryAmounts == {Amt(1, "num"), Amt(0, "num"), Amt(1, "text")}
EntryAddresses == {AddrBob, AddrBadChar}
Inputs ==
    {Input(a, TRUE, TRUE, AddrNone, Amt(0, "num")) : a \in EntryActions \ {"send"}}
    \cup {Input("send", TRUE, TRUE, t, m) : t \in EntryAddresses, m \in EntryAmounts}
    \cup {Input("send", FALSE, TRUE, AddrNone, Amt(1, "num")),
          Input("send", TRUE, FALSE, AddrBob, Amt(0, "num"))}
NextEntry ==
    \/ OneCall /\ \E d \in Inputs : ProcessTransaction("c1", d)
    \/ StatusSteps("c1")
    \/ RespAddress("c1")
    \/ RespTx("c1")
    \/ HistoryDone("c1")
    \/ RespPending("c1")
SpecEntry == InitEntry /\ [][NextEntry]_vars

\* ------------------------------------------------------------ properties
SendManyCalls == {c \in Calls : fr[c].op = "send_multiple_transactions"}
SendOneCalls == {c \in Calls : fr[c].op = "send_transaction"}
StatusCalls == {c \in Calls : fr[c].op = "get_status"}
Returned(c) == fr[c].pc = "done" /\ fr[c].ret.kind = "return"
Raised(c) == fr[c].pc = "done" /\ fr[c].ret.kind = "raise"
\* The records send_many has made so far.
Recorded(f) == Len(f.successful_txs) + Len(f.failed_txs)
\* How often recipient r occurs in a list of recipients, and in a list of
\* records of send_many.
Occurrences(r, recipients) ==
    Cardinality({i \in 1..Len(recipients) : recipients[i] = r})
RecordsOf(r, records) ==
    Cardinality({i \in 1..Len(records) :
                    records[i].address = r.address /\ records[i].amount = r.amount})
\* An address or an amount that the format rules reject, said without the
\* wallet's own patterns.
InvalidAddress(a) == ~verify_address_format(a)
InvalidAmount(m) == m.str = "nan" \/ m.v <= 0

\* C1: in send_many with batch_size >= 1 and base nonce n (the nonce the one
\* status refresh returned), the k-th transaction signed and posted is the one
\* for the k-th recipient and carries nonce n + k (k counted from 1); a call
\* that returns has posted one transaction per recipient, so the nonces are
\* n+1 .. n+len(recipients), each once, in input order.
C1_NoncesInInputOrder ==
    \A c \in SendManyCalls :
        LET f == fr[c] IN
        f.batch_size >= 1 =>
            /\ \A k \in 1..Len(f.posted) :
                  /\ f.posted[k].nonce = f.status.nonce + k
                  /\ f.posted[k].to_address = f.recipients[k].address
                  /\ f.posted[k].amount = f.recipients[k].amount
            /\ Returned(c) => Len(f.posted) = Len(f.recipients)
\* A call of two batches has returned.
C1_Witness ==
    \E c \in SendManyCalls :
        /\ Returned(c)
        /\ Len(fr[c].recipients) = 2 /\ fr[c].batch_size = 1
        /\ fr[c].status.nonce = 10
        /\ fr[c].posted[2].nonce = 12

\* C2: in send_many, whenever a submission of a later wave has been issued,
\* every transaction of the waves before it has completed and been recorded as
\* a success or a failure.
C2_WaveAfterWave ==
    \A c \in SendManyCalls :
        LET f == fr[c] IN
        f.batch_size >= 1 =>
            \A k \in 1..Len(f.posted) :
                Recorded(f) >= ((k - 1) \div f.batch_size) * f.batch_size
\* The second wave is in flight, and within a wave the second submission has
\* completed before the first.
C2_Witness ==
    \E c \in SendManyCalls :
        /\ fr[c].pc = "wave_wait" /\ fr[c].batch_idx = 1
        /\ Recorded(fr[c]) = fr[c].batch_size
C2_InterleaveWitness ==
    \E c \in SendManyCalls :
        /\ fr[c].pc = "wave_wait" /\ Len(fr[c].tasks) = 2
        /\ fr[c].tasks[1].outcome = "pending" /\ fr[c].tasks[2].outcome # "pending"

\* C3: once send_many (batch_size >= 1) has passed validation and the balance
\* check, it returns whatever the submissions end with: every recipient was
\* submitted with its pre-assigned nonce and appears in exactly one of
\* successful_transactions and failed_transactions, so successful + failed =
\* total.
C3_FailureIsolated ==
    \A c \in SendManyCalls :
        LET f == fr[c] IN
        (f.batch_size >= 1 /\ f.pc = "done" /\ f.posted # <<>>) =>
            /\ f.ret.kind = "return"
            /\ Len(f.posted) = Len(f.recipients)
            /\ \A k \in 1..Len(f.posted) : f.posted[k].nonce = f.status.nonce + k
            /\ Recorded(f) = Len(f.recipients)
            /\ \A k \in 1..Len(f.recipients) :
                  RecordsOf(f.recipients[k], f.successful_txs)
                  + RecordsOf(f.recipients[k], f.failed_txs)
                  = Occurrences(f.recipients[k], f.recipients)
\* The first recipient failed, in the first wave, and the second succeeded in
\* the wave after it.
C3_Witness ==
    \E c \in SendManyCalls :
        /\ Returned(c) /\ fr[c].batch_size = 1 /\ Len(fr[c].recipients) = 2
        /\ Len(fr[c].failed_txs) = 1 /\ Len(fr[c].successful_txs) = 1
        /\ fr[c].failed_txs[1].address = fr[c].recipients[1].address
        /\ fr[c].failed_txs[1].amount = fr[c].recipients[1].amount

\* C4: a send_many call whose recipient list is empty or holds an invalid
\* address or a non-positive or malformed amount fails with an error, has
\* issued no network request, and has left the caches and the history as they
\* were.
C4_ValidationFirst ==
    [][\A c \in Calls :
          LET f == fr'[c] IN
          (/\ Free(c) /\ fr'[c] # fr[c]
           /\ f.op = "send_multiple_transactions"
           /\ \/ f.recipients = <<>>
              \/ \E i \in 1..Len(f.recipients) :
                    \/ InvalidAddress(f.recipients[i].address)
                    \/ InvalidAmount(f.recipients[i].amount)) =>
              /\ f.pc = "done" /\ f.ret.kind = "raise"
              /\ f.nreq = 0
              /\ Caches' = Caches]_vars

\* C5: a send_transaction call with an invalid recipient address or an invalid
\* or non-positive amount fails with an error, has issued no network request,
\* and has left the wallet's caches and history as they were.
C5_ValidationFirst ==
    [][\A c \in Calls :
          LET f == fr'[c] IN
          (/\ Free(c) /\ fr'[c] # fr[c]
           /\ f.op = "send_transaction"
           /\ (InvalidAddress(f.to_address) \/ InvalidAmount(f.amount))) =>
              /\ f.pc = "done" /\ f.ret.kind = "raise"
              /\ f.nreq = 0
              /\ Caches' = Caches]_vars

\* C6 as stated: a send_transaction call whose amount is greater than the
\* balance its status read returned, or whose status read returned no nonce,
\* fails with the insufficient-balance error and has issued no POST /send-tx.
C6_InsufficientEitherWay ==
    \A c \in SendOneCalls :
        LET f == fr[c] IN
        (/\ f.pc # "gs_wait" /\ SendValidation(f.to_address, f.amount) = "ok"
         /\ \/ f.status.balance # None /\ f.amount.v > f.status.balance
            \/ f.status.nonce = None) =>
            /\ Raised(c) /\ f.ret.err = "Insufficient balance"
            /\ f.posted = <<>>
\* C6, amended: a send_transaction call whose amount is greater than the
\* balance its status read returned fails with the insufficient-balance error;
\* one whose status read returned no nonce fails with the error "Failed to get
\* current nonce", whatever the amount; neither has issued a POST /send-tx.
C6_NoSubmissionWithoutFunds ==
    \A c \in SendOneCalls :
        LET f == fr[c] IN
        /\ (/\ f.pc # "gs_wait" /\ SendValidation(f.to_address, f.amount) = "ok"
            /\ f.status.balance # None /\ f.amount.v > f.status.balance) =>
              /\ Raised(c) /\ f.ret.exc = "OctraWalletError"
              /\ f.ret.err = "Insufficient balance"
              /\ f.posted = <<>>
        /\ (/\ f.pc # "gs_wait" /\ SendValidation(f.to_address, f.amount) = "ok"
            /\ f.status.nonce = None) =>
              /\ Raised(c) /\ f.ret.exc = "OctraWalletError"
              /\ f.ret.err = "Failed to get current nonce"
              /\ f.posted = <<>>
\* The status read returned no nonce (the ledger answered with one token of
\* text) and the call failed after its two status requests; and the ledger
\* reported balance 3 to a call that asked for 4.
C6_Witness ==
    \E c \in SendOneCalls :
        /\ Raised(c) /\ fr[c].ret.err = "Failed to get current nonce"
        /\ fr[c].status.nonce = None
        /\ fr[c].nreq = 2 /\ fr[c].posted = <<>>
C6_BalanceWitness ==
    \E c \in SendOneCalls :
        /\ Raised(c) /\ fr[c].ret.err = "Insufficient balance"
        /\ fr[c].status.balance = 3 /\ fr[c].amount.v = 4 /\ fr[c].nreq = 2

\* C7 as stated: a get_status(force_refresh=false) call made less than 30
\* seconds after another one, which returned a balance, issues no request and
\* returns what that call returned; a forced call issues the balance query.
C7_TwoCallsWithinTTL ==
    \A c \in StatusCalls :
        LET f == fr[c] IN
        /\ (/\ ~f.force_refresh
            /\ f.prev.op = "get_status" /\ ~f.prev.force_refresh
            /\ f.prev.ret.kind = "return" /\ f.prev.ret.balance # None
            /\ f.now - f.prev.now < StatusTTL) =>
              /\ f.nreq = 0
              /\ Returned(c) /\ f.ret = f.prev.ret
        /\ f.force_refresh => f.nreq >= 1
\* C7, amended: a get_status(force_refresh=false) call issues no request and
\* returns the cached (nonce, balance) exactly when a balance is cached and,
\* at the call, less than 30 seconds have passed since last_update, the time
\* of the call that last refreshed the cache; every other call, a forced one
\* whatever the cache age, issues the balance and the staging query.
C7_CacheRule ==
    \A c \in StatusCalls :
        LET f == fr[c]
            fresh == /\ f.pre.balance_cache # None
                     /\ f.now - f.pre.last_update < StatusTTL
        IN /\ (~f.force_refresh /\ fresh) =>
                 /\ f.nreq = 0
                 /\ Returned(c)
                 /\ f.ret = RetStatus(f.pre.nonce_cache, f.pre.balance_cache)
           /\ (f.force_refresh \/ ~fresh) => f.nreq = 2
\* The second of two unforced calls is served from the cache, 15 seconds after
\* the refresh.
C7_Witness ==
    \E c \in StatusCalls :
        LET f == fr[c] IN
        /\ Returned(c) /\ ~f.force_refresh /\ f.nreq = 0
        /\ f.prev.op = "get_status" /\ ~f.prev.force_refresh
        /\ f.ret.balance = 3 /\ f.ret = f.prev.ret
        /\ f.now - f.pre.last_update = TickStep

\* C8: a process_transaction call that has ended has returned, not raised, a
\* dictionary whose 'success' is a boolean and whose other key is 'data' when
\* it is true and 'error' when it is false, whatever the action, the
\* parameters and the answers of the ledger; an action that is none of send,
\* status, history, pending and wallet_info, or no action, gives success false.
C8_NeverRaises ==
    \A c \in Calls :
        LET f == fr[c] IN
        (f.entry = "process_transaction" /\ f.pc = "done") =>
            /\ f.out.kind = "return"
            /\ f.out.success \in BOOLEAN
            /\ f.out.keys = IF f.out.success THEN {"success", "data"}
                            ELSE {"success", "error"}
            /\ f.action \notin {"send", "status", "history", "pending", "wallet_info"}
                  => ~f.out.success
\* A send got as far as signing, which raised on the wallet that was never
\* loaded, and the call reported the failure.
C8_Witness ==
    \E c \in Calls :
        /\ fr[c].entry = "process_transaction" /\ fr[c].pc = "done"
        /\ fr[c].action = "send" /\ fr[c].ret.exc = "AttributeError"
        /\ fr[c].out.kind = "return" /\ ~fr[c].out.success
        /\ fr[c].nreq = 2

\* C9: a send_transaction call posts at most one transaction, and its nonce is
\* the nonce its own forced status read returned, plus one.
C9_NoncePlusOne ==
    \A c \in SendOneCalls :
        LET f == fr[c] IN
        /\ Len(f.posted) <= 1
        /\ f.posted # <<>> =>
              /\ f.status.nonce # None
              /\ f.posted[1].nonce = f.status.nonce + 1
              /\ f.tx.nonce = f.status.nonce + 1
\* The ledger accepted a transaction with nonce 11 after a status read of 10.
C9_Witness ==
    \E c \in SendOneCalls :
        /\ Returned(c) /\ fr[c].ret.success
        /\ fr[c].status.nonce = 10 /\ fr[c].posted[1].nonce = 11

\* C10: while a transaction of this wallet that the ledger accepted is still
\* in the staging pool, a send_transaction call that posts a transaction posts
\* it with a greater nonce.
C10_NoNonceReuse ==
    \A c \in SendOneCalls :
        fr[c].pc = "post_wait" =>
            \A tx \in staged : tx.from = address => fr[c].tx.nonce > tx.nonce

\* C11: the step in which send_transaction gets the answer to its POST: when
\* the submission succeeded, the history grows by exactly one entry, which has
\* confirmed = false, nonce_cache and balance_cache keep their values and
\* last_update is reset, so that a get_status(force_refresh=false) that is the
\* next call issues its two queries; when it did not succeed, the history and
\* the three cache fields are what they were.
C11_SubmissionEffects ==
    [][\A c \in Calls :
          /\ (fr[c].op = "send_transaction" /\ fr[c].pc = "post_wait"
                /\ fr'[c].pc = "done") =>
                IF fr'[c].ret.kind = "return" /\ fr'[c].ret.success
                THEN /\ Len(transaction_history') = Len(transaction_history) + 1
                     /\ SubSeq(transaction_history', 1, Len(transaction_history))
                           = transaction_history
                     /\ ~transaction_history'[Len(transaction_history')].confirmed
                     /\ nonce_cache' = nonce_cache
                     /\ balance_cache' = balance_cache
                     /\ last_update' = 0
                ELSE Caches' = Caches
          /\ (/\ fr[c].op = "send_transaction" /\ fr[c].pc = "done"
              /\ fr[c].ret.kind = "return" /\ fr[c].ret.success
              /\ fr'[c] # fr[c] /\ fr'[c].op = "get_status"
              /\ ~fr'[c].force_refresh) =>
                fr'[c].nreq = 2]_vars
\* An accepted send left one unconfirmed entry, the nonce and balance it read,
\* and a reset last_update.
C11_Witness ==
    \E c \in SendOneCalls :
        /\ Returned(c) /\ fr[c].ret.success
        /\ Len(transaction_history) = 1 /\ ~transaction_history[1].confirmed
        /\ nonce_cache = 10 /\ balance_cache = 3 /\ last_update = 0
\* The unforced get_status that followed an accepted send is querying.
C11_RefetchWitness ==
    \E c \in StatusCalls :
        /\ fr[c].pc = "gs_wait" /\ ~fr[c].force_refresh
        /\ fr[c].prev.op = "send_transaction" /\ fr[c].prev.ret.success
        /\ balance_cache = 3 /\ fr[c].now - fr[c].prev.now < StatusTTL

\* C12: a get_status call that refreshed from a 200 answer with a plain text
\* body in which the balance token or the nonce token is no number returns
\* (None, None), and never a 0 in place of the malformed token.
C12_MalformedTokenUnknown ==
    \A c \in StatusCalls :
        LET f == fr[c] IN
        (/\ f.pc = "done" /\ f.balGot
         /\ f.bal.status = 200 /\ f.bal.body = "text"
         /\ (f.bal.balTok # "num" \/ f.bal.nonceTok # "num")) =>
            /\ f.ret.kind = "return"
            /\ f.ret.nonce = None /\ f.ret.balance = None

\* The sum of the amounts asked for.
RECURSIVE SumOfAmounts(_)
SumOfAmounts(recipients) ==
    IF recipients = <<>> THEN 0
    ELSE Head(recipients).amount.v + SumOfAmounts(Tail(recipients))
\* The GET requests a send_many call has issued.
StatusQueries(f) == f.nreq - Len(f.posted)

\* C13: a send_many call issues the two queries of one status refresh, or none
\* when validation failed, and nothing is posted before that refresh returned;
\* whatever it posts, it posts with a known nonce and a sum of all amounts that
\* is at most the balance that refresh returned; when the sum is greater or
\* the nonce is unknown it fails and has posted nothing. No later batch adds a
\* status query.
C13_SingleSnapshot ==
    \A c \in SendManyCalls :
        LET f == fr[c] IN
        /\ StatusQueries(f) \in {0, 2}
        /\ StatusQueries(f) = 0 => Raised(c)
        /\ (StatusQueries(f) = 0 \/ f.pc = "gs_wait") => f.posted = <<>>
        /\ f.posted # <<>> =>
              /\ f.status.nonce # None
              /\ SumOfAmounts(f.recipients) <= f.status.balance
        /\ (/\ StatusQueries(f) = 2 /\ f.pc # "gs_wait"
            /\ (f.status.nonce = None
                  \/ SumOfAmounts(f.recipients) > f.status.balance)) =>
              Raised(c) /\ f.posted = <<>>
\* Two waves were posted on the one status refresh, for a sum equal to the
\* balance read.
C13_Witness ==
    \E c \in SendManyCalls :
        /\ Returned(c) /\ fr[c].batch_size = 1 /\ Len(fr[c].posted) = 2
        /\ fr[c].nreq = 4
        /\ SumOfAmounts(fr[c].recipients) = 3 /\ fr[c].status.balance = 3
\* A sum above the balance read, each amount being below it, was refused.
C13_RefusedWitness ==
    \E c \in SendManyCalls :
        /\ Raised(c) /\ fr[c].ret.err = "Insufficient balance"
        /\ fr[c].status.balance = 3 /\ SumOfAmounts(fr[c].recipients) = 4
        /\ fr[c].nreq = 2

\* C14: a get_status call whose balance query was answered 404 returns nonce 0
\* and balance 0 and leaves them in the cache with last_update at the time of
\* the call, whatever the staging query returned; the unforced call that
\* follows it less than 30 seconds later issues no request and returns (0, 0).
C14_NotFoundIsZero ==
    \A c \in StatusCalls :
        LET f == fr[c] IN
        /\ (f.pc = "done" /\ f.balGot /\ f.bal.status = 404) =>
              /\ f.ret = RetStatus(0, 0)
              /\ nonce_cache = 0 /\ balance_cache = 0 /\ last_update = f.now
        /\ (/\ ~f.force_refresh
            /\ f.prev.op = "get_status" /\ f.prev.balStatus = 404
            /\ f.prev.ret.kind = "return"
            /\ f.now - f.prev.now < StatusTTL) =>
              /\ f.nreq = 0
              /\ f.pc = "done" /\ f.ret = RetStatus(0, 0)
\* On a ledger that holds nonce 10 for the address, a 404 answer gave (0, 0),
\* and the unforced call 15 seconds later returned (0, 0) without a request.
C14_Witness ==
    \E c \in StatusCalls :
        LET f == fr[c] IN
        /\ ledgerNonce = 10
        /\ Returned(c) /\ ~f.force_refresh /\ f.nreq = 0
        /\ f.prev.op = "get_status" /\ f.prev.balStatus = 404
        /\ f.now - f.prev.now = TickStep
        /\ f.ret = RetStatus(0, 0)
        /\ nonce_cache = 0 /\ balance_cache = 0 /\ last_update = f.prev.now

PendingCalls == {c \in Calls : fr[c].op = "get_pending_transactions"}

\* C15: a get_pending_transactions call that has ended has returned; when the
\* staging query was answered 200 with a body, it returned the staged
\* transactions of that answer whose 'from' is the wallet address, all of them
\* and no other; when the query timed out, failed or was answered without a
\* body, it returned the empty list; in both cases every cache field is what it
\* was when the call began.
C15_PendingIsOurStaged ==
    \A c \in PendingCalls :
        LET f == fr[c] IN
        f.pc = "done" =>
            /\ f.ret.kind = "return"
            /\ f.nreq = 1
            /\ IF f.stg.status = 200 /\ f.stg.data
               THEN /\ \A tx \in f.ret.pending : tx \in f.stg.txs /\ tx.from = address
                    /\ \A tx \in f.stg.txs : tx.from = address => tx \in f.ret.pending
               ELSE f.ret.pending = {}
            /\ Caches = f.pre
\* The pool held a transaction of the wallet and one of another sender; the
\* call returned the wallet's one alone.
C15_Witness ==
    \E c \in PendingCalls :
        LET f == fr[c] IN
        /\ f.pc = "done" /\ f.stg.status = 200 /\ f.stg.data
        /\ ForeignTx \in f.stg.txs
        /\ Cardinality(f.stg.txs) = 2 /\ Cardinality(f.ret.pending) = 1
        /\ \E tx \in f.ret.pending : tx.from = address
\* The staging query timed out while the pool held a transaction of the
\* wallet; the call returned the empty list.
C15_TimeoutWitness ==
    \E c \in PendingCalls :
        /\ fr[c].pc = "done" /\ fr[c].stg.status = 0
        /\ \E tx \in staged : tx.from = address
        /\ fr[c].ret.pending = {}

\* ------------------------------------------- _create_transaction, signing
\* signing_key.sign(tx_bytes).signature, base64: Ed25519 signatures are a
\* function of the key and the message.
Sign(key, tx_bytes) == [by |-> key, over |-> tx_bytes]
\* Line 105: the public key of the signing key.
PublicKey(key) == [of |-> key]
\* json.dumps of the record after tx.update, lines 311-314: the six fields,
\* then signature and public_key.
EnvelopeBytes(tx) == TxBytes(tx) \o <<tx.signature, tx.public_key>>
\* _create_transaction that hashes the record after signature and public_key
\* were added.
CreateTransaction_HashEnvelope(key, to_address, amount, nonce, ts) ==
    LET tx == UnsignedTx(to_address, amount, nonce, ts)
        tx_bytes == TxBytes(tx)
        signed == [from |-> tx.from, to_ |-> tx.to_, amount |-> tx.amount,
                   nonce |-> tx.nonce, ou |-> tx.ou, timestamp |-> tx.timestamp,
                   signature |-> Sign(key, tx_bytes), public_key |-> PublicKey(key)]
    IN [tx |-> signed, tx_hash |-> Sha256(EnvelopeBytes(signed)),
        signed_bytes |-> tx_bytes, hashed_bytes |-> EnvelopeBytes(signed)]
\* _create_transaction, lines 299-317: the returned (tx, tx_hash), with the
\* bytes given to sign() and to sha256().
CreateTransaction(key, to_address, amount, nonce, ts) ==
    LET tx == UnsignedTx(to_address, amount, nonce, ts)
        tx_bytes == TxBytes(tx)
        signature == Sign(key, tx_bytes)
        signed == [from |-> tx.from, to_ |-> tx.to_, amount |-> tx.amount,
                   nonce |-> tx.nonce, ou |-> tx.ou, timestamp |-> tx.timestamp,
                   signature |-> signature, public_key |-> PublicKey(key)]
    IN [tx |-> signed, tx_hash |-> Sha256(tx_bytes),
        signed_bytes |-> tx_bytes, hashed_bytes |-> tx_bytes]

\* A call of _create_transaction(to_address, amount, nonce) at a time.time()
\* + random.random() * 0.01 of ts.
CreateTx(c, to_address, amount, nonce, ts) ==
    /\ Free(c)
    /\ fr' = [fr EXCEPT ![c] =
                [NewFrame(c, "_create_transaction") EXCEPT
                    !.pc = "done",
                    !.args = <<to_address, amount, nonce, ts>>,
                    !.res = CreateTransaction(signing_key, to_address, amount,
                                              nonce, ts)]]
    /\ UNCHANGED <<wallet, ledger, clock>>

\* load_wallet, lines 85-108, on a wallet file that holds a key and an address.
LoadWallet(key, addr) ==
    /\ \A c \in Calls : Free(c)
    /\ signing_key' = key
    /\ address' = addr
    /\ UNCHANGED <<session, balance_cache, nonce_cache, last_update,
                   transaction_history, last_history_update, ledger, clock, fr,
                   ncalls>>

\* Transactions built by one wallet object, reloaded between them from wallet
\* files that hold a key and an address.
NextTx ==
    \/ /\ OneCall
       /\ \E c \in Calls, amount \in {Amt(1, "num"), Amt(OuThreshold, "num")},
             nonce \in {1, 11}, ts \in {T0, T0 + 1} :
             CreateTx(c, AddrBob, amount, nonce, ts)
    \/ \E key \in {"loaded", "other"}, addr \in {AddrMe, AddrBob} : LoadWallet(key, addr)
SpecTx == InitLoaded /\ [][NextTx]_vars

CreateCalls == {c \in Calls : fr[c].op = "_create_transaction"}
\* The serialization of the six fields of a call, in the order of lines
\* 300-305.
SixFields(f) ==
    <<f.res.tx.from.id, f.args[1].id, f.args[2].v * MICROUNIT, f.args[3],
      IF f.args[2].v < OuThreshold THEN "1" ELSE "3", f.args[4]>>

\* C16: in every _create_transaction call the bytes signed and the bytes
\* hashed are one serialization, of from, to_, amount, nonce, ou and timestamp
\* in that order without signature or public_key, and tx_hash is its hash; two
\* calls with the same from, to, amount, nonce and timestamp have the same
\* bytes and the same tx_hash, whatever the keys they signed with.
C16_HashOfUnsignedBytes ==
    /\ \A c \in CreateCalls :
          LET f == fr[c] IN
          /\ f.res.signed_bytes = SixFields(f)
          /\ f.res.hashed_bytes = f.res.signed_bytes
          /\ f.res.tx_hash = Sha256(SixFields(f))
          /\ f.res.tx.signature.over = SixFields(f)
    /\ \A c \in CreateCalls, d \in CreateCalls :
          (fr[c].args = fr[d].args /\ fr[c].res.tx.from = fr[d].res.tx.from) =>
              /\ fr[c].res.signed_bytes = fr[d].res.signed_bytes
              /\ fr[c].res.tx_hash = fr[d].res.tx_hash
\* Two calls with the same fields, signed with different keys: different
\* signatures and public keys, one hash.
C16_Witness ==
    /\ CreateCalls = Calls
    /\ fr["c1"].args = fr["c2"].args
    /\ fr["c1"].res.tx.from = fr["c2"].res.tx.from
    /\ fr["c1"].res.tx.public_key # fr["c2"].res.tx.public_key
    /\ fr["c1"].res.tx.signature # fr["c2"].res.tx.signature
    /\ fr["c1"].res.tx_hash = fr["c2"].res.tx_hash
    /\ fr["c1"].args[2].v = OuThreshold

\* --------------------------------------------- tools/octrawallets.py
\* The functions of octrawallets.py take no wallet object: a call is a frame
\* whose args are the arguments and whose res is what the call returned. The
\* first call of a behaviour has its arguments drawn from the set inputs.
InitPure(inputs) ==
    /\ address = AddrNone
    /\ signing_key = "None"
    /\ session = None
    /\ balance_cache = None
    /\ nonce_cache = None
    /\ last_update = 0
    /\ transaction_history = <<>>
    /\ last_history_update = 0
    /\ ledgerNonce = 0
    /\ ledgerBalance = 0
    /\ staged = {}
    /\ clock = T0
    /\ \E a \in inputs :
          fr = [c \in Calls |-> IF c = "c1" THEN [Frame0 EXCEPT !.args = a] ELSE Frame0]
    /\ ncalls = 0
\* The call of frame c runs to its end and returns res.
Apply(c, op, res) ==
    /\ fr[c].pc = "idle" /\ fr[c].args # <<>>
    /\ fr' = [fr EXCEPT ![c].op = op, ![c].pc = "done", ![c].res = res]
    /\ UNCHANGED <<wallet, ledger, clock, ncalls>>

\* A string is the sequence of its characters, a bytes object the sequence of
\* its bytes.
BASE58_ALPHABET ==
    <<"1", "2", "3", "4", "5", "6", "7", "8", "9", "A", "B", "C", "D", "E", "F",
     "G", "H", "J", "K", "L", "M", "N", "P", "Q", "R", "S", "T", "U", "V", "W",
     "X", "Y", "Z", "a", "b", "c", "d", "e", "f", "g", "h", "i", "j", "k", "m",
     "n", "o", "p", "q", "r", "s", "t", "u", "v", "w", "x", "y", "z">>
Base58Chars == {BASE58_ALPHABET[i] : i \in 1..Len(BASE58_ALPHABET)}
DigestLen == 32
Byte == 256
Base == 58

\* divmod(int.from_bytes(data, 'big'), 58), by long division: the quotient as
\* bytes of the same length, and the remainder; carry is the remainder of the
\* bytes already divided. The bytes are divided left half first, the
\* remainder of the left half carried into the right half.
RECURSIVE DivMod(_, _)
DivMod(data, carry) ==
    IF data = <<>> THEN [q |-> <<>>, r |-> carry]
    ELSE IF Len(data) = 1
    THEN [q |-> <<(carry * Byte + data[1]) \div Base>>,
          r |-> (carry * Byte + data[1]) % Base]
    ELSE LET h == Len(data) \div 2
             left == DivMod(SubSeq(data, 1, h), carry)
             right == DivMod(SubSeq(data, h + 1, Len(data)), left.r)
         IN [q |-> left.q \o right.q, r |-> right.r]
\* num > 0
Positive(data) == \E i \in 1..Len(data) : data[i] # 0
\* Lines 165-167, one turn of the loop on v = (num, encoded); when num is 0
\* the loop has ended and v stays.
DigitStep(v) ==
    IF ~Positive(v.num) THEN v
    ELSE LET d == DivMod(v.num, 0)
         IN [num |-> d.q, encoded |-> <<BASE58_ALPHABET[d.r + 1]>> \o v.encoded]
\* n turns of the loop: the first half of them, then the others on what the
\* first half left (a one-element set, so that the first half is computed
\* before the second begins).
RECURSIVE DigitSteps(_, _)
DigitSteps(v, n) ==
    IF n = 0 THEN v
    ELSE IF n = 1 THEN DigitStep(v)
    ELSE CHOOSE r \in {DigitSteps(w, n - n \div 2) : w \in {DigitSteps(v, n \div 2)}} : TRUE
\* Lines 164-167: the digits of num, most significant first. A byte gives less
\* than two digits, so the loop has ended after 2 * len(data) turns.
Digits(data) == DigitSteps([num |-> data, encoded |-> <<>>], 2 * Len(data)).encoded
\* Lines 169-173: one '1' for each leading zero byte.
LeadingOnes(data) ==
    LET z == CHOOSE k \in 0..Len(data) :
                 /\ \A i \in 1..k : data[i] = 0
                 /\ k = Len(data) \/ data[k + 1] # 0
    IN [i \in 1..z |-> "1"]
\* base58_encode without the loop of lines 169-173.
base58_encode_DigitsOnly(data) == Digits(data)
\* base58_encode(data), lines 158-175
base58_encode(data) ==
    IF data = <<>> THEN <<>> ELSE LeadingOnes(data) \o Digits(data)

\* hashlib.sha256(public_key).digest(): 32 bytes, any 32 bytes; a public key
\* is kept by its digest.
PublicKeyBytes(digest) == [digest |-> digest]
sha256_digest(public_key) == public_key.digest
\* create_octra_address(public_key), lines 177-181
create_octra_address(public_key) ==
    <<"o", "c", "t">> \o base58_encode(sha256_digest(public_key))
\* What the code reads of an address string (see AddrMe).
AddressRecord(chars) ==
    LET nl == chars # <<>> /\ chars[Len(chars)] = "\n"
        body == IF nl THEN SubSeq(chars, 1, Len(chars) - 1) ELSE chars
    IN [id |-> "created",
        prefix |-> IF Len(body) >= 3 /\ SubSeq(body, 1, 3) = <<"o", "c", "t">>
                   THEN "oct" ELSE "",
        n |-> Max(0, Len(body) - 3),
        b58 |-> \A i \in 4..Len(body) : body[i] \in Base58Chars,
        nl |-> nl]

\* Digests tried: z zero bytes, then one byte first, then bytes fill.
Digest(z, first, fill) ==
    [i \in 1..DigestLen |-> IF i <= z THEN 0 ELSE IF i = z + 1 THEN first ELSE fill]
CreateOctraAddress(c) ==
    Apply(c, "create_octra_address", create_octra_address(fr[c].args[1]))
NextAddress == CreateOctraAddress("c1")
SpecAddress ==
    /\ InitPure({<<PublicKeyBytes(Digest(z, first, fill))>> :
                    z \in 0..DigestLen, first \in {1, 57, 255}, fill \in {0, 255}})
    /\ [][NextAddress]_vars

AddressCalls == {c \in Calls : fr[c].op = "create_octra_address"}

\* C17: every address create_octra_address returns begins with the characters
\* o, c, t, has between 20 and 50 characters, has after the first three only
\* characters of the base58 alphabet, and is accepted by
\* verify_address_format, whatever the digest of the public key.
C17_CreatedAddressVerifies ==
    \A c \in AddressCalls :
        LET a == fr[c].res IN
        /\ Len(a) >= 3 /\ SubSeq(a, 1, 3) = <<"o", "c", "t">>
        /\ Len(a) >= 20 /\ Len(a) <= 50
        /\ \A i \in 4..Len(a) : a[i] \in Base58Chars
        /\ verify_address_format(AddressRecord(a))
\* The address of the all-zero digest: oct and 32 times the character 1.
C17_Witness ==
    \E c \in AddressCalls :
        /\ fr[c].args[1].digest = Digest(DigestLen, 0, 0)
        /\ Len(fr[c].res) = 35
        /\ \A i \in 4..35 : fr[c].res[i] = "1"
\* The address of the all-ones digest has 47 characters.
C17_LongestWitness ==
    \E c \in AddressCalls :
        /\ fr[c].args[1].digest = Digest(0, 255, 255)
        /\ Len(fr[c].res) = 47

\* ------------------------------------------------------ entropy_to_mnemonic
\* generate_entropy, line 54: the supported strengths, in bits.
Strengths == {128, 160, 192, 224, 256}
WordBits == 11
WordlistSize == 2048
\* An entropy is its bytes and the first byte of its sha256 digest, which can
\* be any byte.
Entropy(bytes, h) == [bytes |-> bytes, h |-> h]
\* A wordlist is its length; its i-th word (from 0) is kept as i.
Wordlist(n) == [len |-> n]
Word(wordlist, i) == [i |-> i]

\* The bits of a byte, and of a bytes object read big-endian, most significant
\* first.
ByteBits(b) == [k \in 1..8 |-> (b \div 2^(8 - k)) % 2]
BitsOf(bytes) ==
    [k \in 1..(8 * Len(bytes)) |-> ByteBits(bytes[((k - 1) \div 8) + 1])[((k - 1) % 8) + 1]]
\* The integer of at most 11 bits.
RECURSIVE IntOf(_)
IntOf(bits) ==
    IF bits = <<>> THEN 0
    ELSE 2 * IntOf(SubSeq(bits, 1, Len(bits) - 1)) + bits[Len(bits)]
\* A checksum made of the low bits of the first digest byte.
ChecksumInt_LowBits(h, checksum_bits) == h % 2^checksum_bits
\* Line 61: int.from_bytes(checksum[:1], 'big') >> (8 - checksum_bits)
ChecksumInt(h, checksum_bits) == h \div 2^(8 - checksum_bits)
\* The low n bits of v, most significant first.
LowBits(v, n) == [k \in 1..n |-> (v \div 2^(n - k)) % 2]
\* Lines 63-67: the bits of combined, as many as the variable bits counts; the
\* checksum is below 2^checksum_bits, so the OR of line 64 writes it into the
\* bits the shift left free.
Combined(entropy, checksum_bits) ==
    BitsOf(entropy.bytes) \o LowBits(ChecksumInt(entropy.h, checksum_bits), checksum_bits)
\* Line 70: (combined >> (bits - (i + 1) * 11)) & 0x7FF
WordIndex(combined, i) == IntOf(SubSeq(combined, i * WordBits + 1, (i + 1) * WordBits))
\* entropy_to_mnemonic(entropy, wordlist), lines 58-73: the list returned, or
\* the exception raised: ValueError for a negative shift count at line 61,
\* IndexError for wordlist[word_index] at line 71.
entropy_to_mnemonic(entropy, wordlist) ==
    LET checksum_bits == (Len(entropy.bytes) * 8) \div 32
        bits == Len(entropy.bytes) * 8 + checksum_bits
        n == bits \div WordBits
    IN IF checksum_bits > 8 THEN [kind |-> "raise", exc |-> "ValueError", words |-> <<>>]
       ELSE LET combined == Combined(entropy, checksum_bits)
                idx == [i \in 1..n |-> WordIndex(combined, i - 1)]
            IN IF \E i \in 1..n : idx[i] >= wordlist.len
               THEN [kind |-> "raise", exc |-> "IndexError", words |-> <<>>]
               ELSE [kind |-> "return", exc |-> "",
                     words |-> [i \in 1..n |-> Word(wordlist, idx[i])]]

\* Entropies tried: n bytes, all one byte, or the bytes 0, 37, 74, ...
Filled(n, b) == [i \in 1..n |-> b]
Stepped(n) == [i \in 1..n |-> ((i - 1) * 37) % 256]
MnemonicInputs ==
    {<<Entropy(e, h), Wordlist(n)>> :
        e \in UNION {{Filled(s \div 8, 0), Filled(s \div 8, 255), Filled(s \div 8, 165),
                      Stepped(s \div 8)} : s \in Strengths},
        h \in {0, 1, 128, 165, 255},
        n \in {WordlistSize, WordlistSize + 1, WordlistSize - 1, 0}}
EntropyToMnemonic(c) ==
    Apply(c, "entropy_to_mnemonic", entropy_to_mnemonic(fr[c].args[1], fr[c].args[2]))
NextMnemonic == EntropyToMnemonic("c1")
SpecMnemonic == InitPure(MnemonicInputs) /\ [][NextMnemonic]_vars

MnemonicCalls == {c \in Calls : fr[c].op = "entropy_to_mnemonic"}

\* C18: an entropy_to_mnemonic call whose wordlist has not 2048 entries raises
\* the invalid-wordlist error (the ValueError of load_wordlist) and returns no
\* mnemonic.
C18_WordlistSizeChecked ==
    \A c \in MnemonicCalls :
        fr[c].args[2].len # WordlistSize =>
            fr[c].res.kind = "raise" /\ fr[c].res.exc = "ValueError"

\* C19: for an entropy of s bits, s one of 128, 160, 192, 224 and 256, and a
\* wordlist of 2048 words, entropy_to_mnemonic returns (s + s/32)/11 words,
\* each the word of an index in 0..2047, and the last s/32 of the bits the
\* words encode, the low s/32 bits of the last index, are the top s/32 bits
\* of the first byte of the hash of the entropy.
C19_WordsAndChecksum ==
    \A c \in MnemonicCalls :
        LET f == fr[c]
            s == Len(f.args[1].bytes) * 8
            cs == s \div 32
            w == f.res.words
        IN (s \in Strengths /\ f.args[2].len = WordlistSize) =>
              /\ f.res.kind = "return"
              /\ Len(w) * WordBits = s + cs
              /\ \A i \in 1..Len(w) : w[i].i \in 0..(WordlistSize - 1)
              /\ w[Len(w)].i % 2^cs = f.args[1].h \div 2^(8 - cs)
\* 160 bits of entropy whose hash begins with the byte 165 gave 15 words, the
\* last of them ending in the five bits 10100.
C19_Witness ==
    \E c \in MnemonicCalls :
        /\ fr[c].args[1] = Entropy(Filled(20, 255), 165)
        /\ fr[c].args[2].len = WordlistSize
        /\ fr[c].res.kind = "return" /\ Len(fr[c].res.words) = 15
        /\ fr[c].res.words[15].i % 32 = 20
        /\ fr[c].res.words[1].i = WordlistSize - 1

\* ------------------------------------------------------- derive_for_network
\* An integer argument or path segment in 0..2^32-1 is its top bit h, the
\* hardened bit 0x80000000, and its low 31 bits.
U32(h, low) == [h |-> h, low |-> low]
MaxLow == 2147483647
Purpose == 345
\* 0x80000000 | x
Harden(x) == [x EXCEPT !.h = 1]
\* Line 89: index >= 0x80000000
Hardened(x) == x.h = 1
\* get_network_type_name(network_type), lines 108-120
get_network_type_name(network_type) ==
    IF Hardened(network_type) THEN "Unknown"
    ELSE CASE network_type.low = 0 -> "MainCoin"
           [] network_type.low = 1 -> "SubCoin"
           [] network_type.low = 2 -> "Contract"
           [] network_type.low = 3 -> "Subnet"
           [] network_type.low = 4 -> "Account"
           [] OTHER -> "Unknown"
\* derive_path(seed, path), lines 102-106: HMAC-SHA512 chained along the path,
\* kept as the seed and the path it was chained along.
derive_path(seed, path) == [seed |-> seed, path |-> path]
\* derive_for_network, lines 122-156: the returned dictionary, without the
\* public key and the address made of the derived key.
derive_for_network(seed, network_type, network, contract, account, index, token, subnet) ==
    LET coin_type == IF network_type = U32(0, 0) THEN U32(0, 0) ELSE network_type
        base_path == <<Harden(U32(0, Purpose)), Harden(coin_type), Harden(network)>>
        contract_path == <<Harden(contract), Harden(account)>>
        optional_path == <<Harden(token), Harden(subnet)>>
        final_path == <<index>>
        full_path == base_path \o contract_path \o optional_path \o final_path
    IN [private_key |-> derive_path(seed, full_path),
        path |-> full_path,
        network_type_name |-> get_network_type_name(network_type),
        network |-> network, contract |-> contract, account |-> account,
        index |-> index]

\* Arguments tried.
SegmentValues == {U32(0, 0), U32(0, 1), U32(0, MaxLow), U32(1, 0)}
DeriveInputs ==
    {<<"seed", network_type, network, contract, U32(0, 0), index, token, U32(0, 0)>> :
        network_type \in {U32(0, 0), U32(0, 1), U32(0, 5)},
        network \in {U32(0, 0), U32(0, 1)},
        contract \in {U32(0, 0), U32(1, 0)},
        index \in SegmentValues,
        token \in {U32(0, 0), U32(0, MaxLow)}}
    \cup {<<"seed", U32(0, 0), U32(0, 0), U32(0, 0), account, U32(0, 0), U32(0, 0), subnet>> :
        account \in SegmentValues, subnet \in SegmentValues}
DeriveForNetwork(c) ==
    LET a == fr[c].args
    IN Apply(c, "derive_for_network",
             derive_for_network(a[1], a[2], a[3], a[4], a[5], a[6], a[7], a[8]))
NextDerive == DeriveForNetwork("c1")
SpecDerive == InitPure(DeriveInputs) /\ [][NextDerive]_vars

DeriveCalls == {c \in Calls : fr[c].op = "derive_for_network"}

\* C20: whatever its arguments, derive_for_network derives along a path of 8
\* segments: hardened 345, then the coin type, the network, the contract, the
\* account, the token and the subnet, each hardened, then the leaf index, not
\* hardened (below 2^31).
C20_PathShape ==
    \A c \in DeriveCalls :
        LET a == fr[c].args
            path == fr[c].res.private_key.path
        IN /\ Len(path) = 8
           /\ path[1] = U32(1, Purpose)
           /\ \A i \in 2..7 : path[i].h = 1
           /\ path[2].low = a[2].low /\ path[3].low = a[3].low
           /\ path[4].low = a[4].low /\ path[5].low = a[5].low
           /\ path[6].low = a[7].low /\ path[7].low = a[8].low
           /\ path[8] = a[6]
           /\ path[8].h = 0

\* ------------------------------------------------ get_status, staged nonces
\* The requests a get_status call has made: none on a cache hit.
Refreshed(f) == f.pc = "done" /\ f.nreq = 2
\* The staged transactions of an answer whose sender is the wallet.
OwnStaged(f) == {tx \in f.stg.txs : tx.from = address}

\* C21: a get_status call whose balance query was answered 200 with JSON and
\* whose staging query was answered 200 with a body returns, as nonce, the
\* greater of the fetched nonce and the highest nonce among the staged
\* transactions sent by this wallet (the fetched nonce when there is none),
\* whatever other senders have staged, and as balance the fetched balance; the
\* cache holds the same pair.
C21_NonceFromOwnStaged ==
    \A c \in StatusCalls :
        LET f == fr[c] IN
        (Refreshed(f) /\ f.bal.status = 200 /\ f.bal.body = "json"
            /\ f.stg.status = 200 /\ f.stg.data) =>
            /\ f.ret.kind = "return"
            /\ f.ret.balance = f.bal.balance
            /\ f.ret.nonce = IF OwnStaged(f) = {} THEN f.bal.nonce
                              ELSE Max(f.bal.nonce, MaxOf({tx.nonce : tx \in OwnStaged(f)}))
            /\ nonce_cache = f.ret.nonce /\ balance_cache = f.ret.balance
\* Another sender had staged a nonce above the fetched one and the wallet
\* nothing: the call returned the fetched nonce.
C21_Witness ==
    \E c \in StatusCalls :
        LET f == fr[c] IN
        /\ Refreshed(f) /\ f.bal.status = 200 /\ f.bal.body = "json"
        /\ f.stg.status = 200 /\ f.stg.data
        /\ OwnStaged(f) = {}
        /\ \E tx \in f.stg.txs : tx.nonce > f.bal.nonce
        /\ f.ret.nonce = f.bal.nonce
\* The wallet had staged a nonce above the fetched one: the call returned the
\* staged nonce.
C21_StagedWitness ==
    \E c \in StatusCalls :
        LET f == fr[c] IN
        /\ Refreshed(f) /\ f.bal.status = 200 /\ f.bal.body = "json"
        /\ f.stg.status = 200 /\ f.stg.data
        /\ \E tx \in OwnStaged(f) : tx.nonce > f.bal.nonce /\ f.ret.nonce = tx.nonce
        /\ f.ret.balance = f.bal.balance

\* ------------------------------------------- send_transaction, failed refresh
\* The balance query of the refresh inside a send failed: a timeout, a
\* transport error, or a status other than 200 and 404.
RefreshFailed(f) == f.balGot /\ f.pc # "gs_wait" /\ f.bal.status \notin {200, 404}

\* C28: a send_transaction call whose forced status refresh failed (the balance
\* query timed out, failed in transport, or was answered with a status other
\* than 200 and 404) has submitted nothing.
C28_FailedRefreshSubmitsNothing ==
    \A c \in SendOneCalls : RefreshFailed(fr[c]) => fr[c].posted = <<>>

\* --------------------------------------------------------- request timeouts
\* Lines 147-152: a request is sent on self.session without a timeout of its
\* own, so the timeout it runs under is the one the session was made with.
TimeoutInForce == session
\* The requests in flight of a frame: the staging polls and the primary calls.
StagingPollOpen(f) == f.pc = "gp_wait" \/ (f.pc = "gs_wait" /\ ~f.stgGot)
PrimaryOpen(f) == f.pc = "post_wait" \/ (f.pc = "gs_wait" /\ ~f.balGot)

\* C26: every staging poll in flight (of get_status and of
\* get_pending_transactions) runs under a timeout of 5 seconds and every
\* primary call in flight (balance query, submission) under 10 seconds,
\* whichever request made the session.
C26_TimeoutByRequest ==
    \A c \in Calls :
        /\ StagingPollOpen(fr[c]) => TimeoutInForce = 5
        /\ PrimaryOpen(fr[c]) => TimeoutInForce = 10

\* ------------------------------------------------ concurrent calls, one wallet
\* Two coroutines call a loaded wallet, one call each; a call runs up to its
\* next await and the event loop then lets either go on.
FirstCall(c) == fr[c].pc = "idle" /\ OneCall
NextConcurrent ==
    \/ \E c \in Calls : FirstCall(c) /\ SendTransaction(c, AddrBob, Amt(1, "num"))
    \/ \E c \in Calls : FirstCall(c) /\ GetStatus(c, FALSE)
    \/ \E c \in Calls : FirstCall(c) /\ GetPendingTransactions(c)
    \/ \E c \in Calls : StatusSteps(c)
    \/ \E c \in Calls : RespSend(c)
    \/ \E c \in Calls : RespPending(c)
    \/ Finalize
SpecConcurrent == InitLoaded /\ [][NextConcurrent]_vars

\* A frame that has a request in flight.
RequestOpen(f) == f.pc \in {"gs_wait", "post_wait", "gp_wait"}

\* C25: on a wallet that is not closed, under any interleaving of the calls of
\* two coroutines, no step replaces a session that exists (so at most one
\* session is made), and every request in flight after the step has a session
\* to run on, the one that existed before the step when there was one.
C25_OneSession ==
    [][/\ session # None => session' = session
       /\ \A c \in Calls : RequestOpen(fr'[c]) => session' # None]_vars
\* Both coroutines have requests in flight: one call made the session for its
\* balance and staging queries, the staging poll of the other, which asks for
\* another timeout, runs on the same session.
C25_Witness ==
    /\ fr["c1"].pc = "gs_wait" /\ ~fr["c1"].balGot /\ ~fr["c1"].stgGot
    /\ fr["c2"].pc = "gp_wait"
    /\ session = 10

\* C29: two send_transaction calls of two coroutines on the same wallet that
\* have both submitted carry different nonces, however their steps interleave.
C29_DistinctNonces ==
    \A c, d \in SendOneCalls :
        (c # d /\ fr[c].posted # <<>> /\ fr[d].posted # <<>>) =>
            fr[c].posted[1].nonce # fr[d].posted[1].nonce

\* ------------------------------------------------- get_history on a wallet
\* get_history(limit, force_refresh), lines 227-231.
GetHistory(c, force_refresh) ==
    /\ Free(c)
    /\ fr' = [fr EXCEPT ![c] =
                EnterHistory([NewFrame(c, "get_history") EXCEPT
                                 !.force_refresh = force_refresh],
                             Caches, force_refresh)]
    /\ session' = IF fr'[c].pc = "gh_wait" THEN OpenSession(10) ELSE session
    /\ UNCHANGED <<address, signing_key, balance_cache, nonce_cache, last_update,
                   transaction_history, last_history_update, ledger, clock>>

\* Histories an earlier refresh has left in the cache, with the time of that
\* refresh. An entry of such a history, fetched as the i-th newest:
CachedEntry(hash, time) ==
    [time |-> time, hash |-> hash, amount |-> 1, counterparty |-> AddrBob,
     type |-> "incoming", confirmed |-> TRUE, nonce |-> 1, epoch |-> 1]
\* a full cache, HistoryCap entries of the last minutes, newest first;
FullHistory == [i \in 1..HistoryCap |-> CachedEntry(<<"t", i>>, T0 - 100 - i)]
\* a short one: the ledger's h1 and an entry that is older than an hour;
ShortHistory == <<[CachedEntry(<<"h1">>, T0 - 10) EXCEPT !.amount = 2, !.nonce = 7],
                  CachedEntry(<<"s">>, T0 - HistoryKeep - 1)>>
\* the ledger's h1 and h2 as a refresh fetched them: h2 is older than an
\* hour and was kept because it was new to the cache.
AgedHistory == <<[CachedEntry(<<"h1">>, T0 - 10) EXCEPT !.amount = 2, !.nonce = 7],
                 [CachedEntry(<<"h2">>, 0) EXCEPT !.type = "outgoing", !.nonce = 8]>>
CachedHistories ==
    {[history |-> <<>>, at |-> 0],
     [history |-> ShortHistory, at |-> T0 - 5],
     [history |-> AgedHistory, at |-> T0 - 5],
     [history |-> FullHistory, at |-> T0 - 100]}
InitHistory ==
    /\ address = AddrMe
    /\ signing_key = "loaded"
    /\ session = None
    /\ balance_cache = None
    /\ nonce_cache = None
    /\ last_update = 0
    /\ \E h \in CachedHistories :
          transaction_history = h.history /\ last_history_update = h.at
    /\ ledgerNonce \in InitNonces
    /\ ledgerBalance \in InitBalances
    /\ staged = {}
    /\ clock = T0
    /\ fr = [c \in Calls |-> Frame0]
    /\ ncalls = 0
\* A send, if any, and then one get_history call.
NextHistory ==
    \/ ncalls = 0 /\ OneCall /\ SendTransaction("c1", AddrBob, Amt(1, "num"))
    \/ LastCall /\ \E force_refresh \in BOOLEAN : GetHistory("c1", force_refresh)
    \/ StatusSteps("c1")
    \/ RespSend("c1")
    \/ RespAddress("c1")
    \/ RespTx("c1")
    \/ HistoryDone("c1")
SpecHistory == InitHistory /\ [][NextHistory]_vars

\* C22: the history cache holds at most 50 entries in every state of a wallet
\* on which get_history and send_transaction are called.
C22_HistoryBounded == Len(transaction_history) <= HistoryCap

\* ------------------------------------------------- get_history, the merge
HistoryCalls == {c \in Calls : fr[c].op = "get_history"}
\* The step in which get_history, having received a transaction list and the
\* answers to its fetches, merges and returns.
Merges(c) ==
    /\ fr[c].op = "get_history" /\ fr[c].pc = "gh_tx_wait"
    /\ fr'[c].pc = "done" /\ fr'[c].ret.kind = "return"
\* The references of frame f that were answered with full details and whose
\* hash the history h does not hold, and the entries of h of the last hour.
FreshRefs(f, h) ==
    {i \in 1..Len(f.refs) :
        f.tx_results[i] = "parsed"
        /\ \A k \in 1..Len(h) : h[k].hash # f.refs[i].hash}
KeptEntries(h) == {k \in 1..Len(h) : h[k].time > clock - HistoryKeep}
HashCount(h, hash) == Cardinality({k \in 1..Len(h) : h[k].hash = hash})

\* C23: a get_history refresh that received a transaction list leaves in the
\* cache only entries it fetched anew and entries cached before that are
\* younger than one hour, ordered by time from newest to oldest, at most 50 of
\* them: all of them when they are no more than 50, and otherwise 50 such that
\* no entry left out is newer than one kept.
C23_MergeSortTruncate ==
    [][\A c \in Calls : Merges(c) =>
          LET f == fr[c]
              old == transaction_history
              new == transaction_history'
              fresh == {RemoteEntry(f.refs[i], address) : i \in FreshRefs(f, old)}
              kept == {old[k] : k \in KeptEntries(old)}
          IN /\ Len(new) = IF Cardinality(FreshRefs(f, old)) + Cardinality(KeptEntries(old))
                                 <= HistoryCap
                             THEN Cardinality(FreshRefs(f, old)) + Cardinality(KeptEntries(old))
                             ELSE HistoryCap
             /\ \A k \in 1..Len(new) : new[k] \in fresh \cup kept
             /\ \A j, k \in 1..Len(new) : j < k => new[j].time >= new[k].time
             /\ \A e \in fresh \cup kept :
                   \/ \E k \in 1..Len(new) : new[k] = e
                   \/ Len(new) = HistoryCap /\ e.time <= new[HistoryCap].time
             /\ last_history_update' = f.now]_vars
\* The cache was full, the ledger listed h1 and h2 and gave the details of
\* both: the refresh put h1 first and left out h2 and the oldest cached entry.
C23_Witness ==
    \E c \in HistoryCalls :
        LET f == fr[c] IN
        /\ f.pc = "done" /\ f.ret.kind = "return"
        /\ f.pre.transaction_history = FullHistory
        /\ Len(f.refs) = 2 /\ f.refs[1].hash # f.refs[2].hash
        /\ \A i \in 1..2 : f.tx_results[i] = "parsed"
        /\ Len(transaction_history) = HistoryCap
        /\ transaction_history[1].hash = <<"h1">>
        /\ HashCount(transaction_history, <<"h2">>) = 0
        /\ HashCount(transaction_history, FullHistory[HistoryCap].hash) = 0
        /\ HashCount(transaction_history, FullHistory[HistoryCap - 1].hash) = 1
\* The cache held an entry older than an hour: the refresh dropped it and
\* kept the younger one behind the new entry.
C23_CutoffWitness ==
    \E c \in HistoryCalls :
        LET f == fr[c] IN
        /\ f.pc = "done" /\ f.ret.kind = "return"
        /\ f.pre.transaction_history = ShortHistory
        /\ Len(f.refs) >= 1 /\ f.tx_results[1] = "parsed"
        /\ HashCount(transaction_history, <<"s">>) = 0
        /\ HashCount(transaction_history, <<"h1">>) = 1
        /\ HashCount(transaction_history, <<"h2">>) = 1

\* C24: no step of get_history raises the number of entries of a hash that the
\* cache already held.
C24_NoDuplicateOfCached ==
    [][\A c \in Calls :
          (fr[c].op = "get_history" /\ fr[c].pc \in {"gh_wait", "gh_tx_wait"}) =>
              \/ transaction_history' = transaction_history
              \/ \A k \in 1..Len(transaction_history) :
                    HashCount(transaction_history', transaction_history[k].hash)
                        <= HashCount(transaction_history, transaction_history[k].hash)]_vars
\* The ledger listed h1, which the cache held, and gave its details: the cache
\* holds h1 once after the refresh.
C24_Witness ==
    \E c \in HistoryCalls :
        LET f == fr[c] IN
        /\ f.pc = "done" /\ f.ret.kind = "return"
        /\ HashCount(f.pre.transaction_history, <<"h1">>) = 1
        /\ \E i \in 1..Len(f.refs) : f.refs[i].hash = <<"h1">> /\ f.tx_results[i] = "parsed"
        /\ HashCount(transaction_history, <<"h1">>) = 1
        /\ last_history_update = f.now

\* C27: after a get_history refresh in which the ledger listed the hash of a
\* cached entry and gave its full details, the cached entries of that hash are
\* confirmed.
C27_LocalEntryConfirmed ==
    \A c \in HistoryCalls :
        LET f == fr[c] IN
        (f.pc = "done" /\ f.ret.kind = "return") =>
            \A i \in 1..Len(f.refs) :
                f.tx_results[i] = "parsed" =>
                    \A k \in 1..Len(transaction_history) :
                        transaction_history[k].hash = f.refs[i].hash =>
                            transaction_history[k].confirmed

\* ---------------------------------------- created addresses as recipients
\* C34: the recipient check of send_transaction, send_multiple_transactions
\* and validate_address (ADDRESS_PATTERN) accepts every address that
\* create_octra_address returns.
C34_CreatedAddressAccepted ==
    \A c \in AddressCalls : ADDRESS_PATTERN_match(AddressRecord(fr[c].res))

\* ------------------------------------------ process_transaction, the wallet
EntryCalls == {c \in Calls : fr[c].entry = "process_transaction"}
\* A frame that waits for the answer to a request of any kind.
AwaitsAnswer(f) == f.pc \in {"gs_wait", "gh_wait", "gh_tx_wait", "gp_wait", "post_wait"}

\* C31: while a call of process_transaction has a request in flight, the
\* wallet it uses holds an address and a signing key.
C31_LoadedBeforeRequests ==
    \A c \in EntryCalls :
        AwaitsAnswer(fr[c]) => address # AddrNone /\ signing_key # "None"

\* C32: when a call of process_transaction has returned, no session that it
\* opened is open: the wallet it made holds none.
C32_SessionClosedOnReturn ==
    \A c \in EntryCalls : fr[c].pc = "done" => session = None

\* C33: after a get_history refresh that merged and left fewer than 50
\* entries, the cache holds every transaction of which the ledger gave the
\* full details in that refresh, those cached before included.
C33_ReturnedIsCached ==
    \A c \in HistoryCalls :
        LET f == fr[c] IN
        (f.pc = "done" /\ f.ret.kind = "return" /\ Len(f.refs) >= 1
            /\ Len(transaction_history) < HistoryCap) =>
            \A i \in 1..Len(f.refs) :
                f.tx_results[i] = "parsed" =>
                    HashCount(transaction_history, f.refs[i].hash) >= 1
====
